---------------------------- MODULE Spec2Model ----------------------------
(***************************************************************************)
(* Model of the Orders page of the reseller dashboard                      *)
(* (src/src/pages/Wallet.tsx, which holds the Orders component) and of the *)
(* order API client it calls (src/unnamed/part_003).                       *)
(*                                                                         *)
(* Text is a sequence of one-character strings, so that split, trim,       *)
(* toLowerCase, includes, indexOf and the regular expressions of the CSV   *)
(* validator are computed as JavaScript computes them.                     *)
(***************************************************************************)
EXTENDS Integers, Sequences, FiniteSets, TLC

VARIABLES
    \* state of the Orders component (useState)
    selectedTab, searchTerm, selectedMarketplace, dateRange, sortBy,
    orders, totalCount, isLoading,
    uploadDialogOpen, selectedFile, isUploading,
    \* asynchronous work in flight and its outcome
    uploads,        \* one record per click on Upload: the file captured by the
                    \* handler, where the handler chain stands, the toasts shown
    listings,       \* listing requests sent and not yet answered
    \* environment
    pickable,       \* the files the user has at hand in this run
    \* a table row being rendered
    order, display,
    products, amount,   \* order.products and the amount shown for them
    \* the session
    localStorage,   \* the items accessToken, refreshToken and user
    pathname,       \* window.location.pathname, the route shown
    user,           \* the user of the AuthProvider (useState)
    requests,       \* requests sent through an API client and not yet answered
    settled,        \* the last answer an API client handled, with its toasts
    fetchFailure,   \* what the catch of fetchTabOrders caught last, and its toast
    lookup,         \* the lookup of one order: requests made, outcome, toasts
    \* a component using useApi
    hook,           \* its props, the state of useApi, the call that settled last
                    \* and the callbacks called for it
    effects,        \* the calls of apiCall not yet completed, with their isMounted
    \* the other pages
    registration,   \* a registration that was answered, and the toasts shown for it
    details,        \* the state of the OrderDetails page (useState)
    wallet,         \* the state of the Wallet page (useState)
    walletCalls,    \* the billApi calls of the Wallet page not yet answered
    billService,    \* the bill service: the bills and the autopay updates it accepted
    card            \* the state of the WalletCard (useState) and its request

vars == << selectedTab, searchTerm, selectedMarketplace, dateRange, sortBy,
           orders, totalCount, isLoading,
           uploadDialogOpen, selectedFile, isUploading,
           uploads, listings, pickable, order, display, products, amount,
           localStorage, pathname, user, requests, settled, fetchFailure, lookup, hook, effects,
           registration, details, wallet, walletCalls, billService, card >>

listingVars == << selectedTab, searchTerm, selectedMarketplace, dateRange, sortBy,
                  orders, totalCount, isLoading, listings >>
filterVars == << selectedTab, searchTerm, selectedMarketplace, dateRange, sortBy >>
uploadVars == << uploadDialogOpen, selectedFile, isUploading, uploads, pickable >>
hookVars == << hook, effects >>
failureVars == << fetchFailure >>
walletVars == << wallet, walletCalls, billService >>
pageVars == << registration, walletVars, card >>
detailVars == << details >>
rowVars == << order, display, products, amount, lookup, hookVars, failureVars, pageVars,
             detailVars >>
sessionVars == << localStorage, pathname, user, requests, settled >>

\* bounds of the model
MaxAttempts == 2
MaxInFlight == 2
MaxProducts == 3
MaxRequests == 1
MaxCalls == 3
MaxRecharges == 2


-----------------------------------------------------------------------------
(* JavaScript string and array primitives used by the page                 *)

Digits == {"0", "1", "2", "3", "4", "5", "6", "7", "8", "9"}

UpperCase == <<"A", "B", "C", "D", "E", "F", "G", "H", "I", "J", "K", "L", "M",
               "N", "O", "P", "Q", "R", "S", "T", "U", "V", "W", "X", "Y", "Z">>

LowerCase == <<"a", "b", "c", "d", "e", "f", "g", "h", "i", "j", "k", "l", "m",
               "n", "o", "p", "q", "r", "s", "t", "u", "v", "w", "x", "y", "z">>

Letters == {UpperCase[i] : i \in 1..Len(UpperCase)} \cup {LowerCase[i] : i \in 1..Len(LowerCase)}

\* \s of String.prototype.trim, restricted to the characters the files use
IsWhiteSpace(c) == c \in {" ", "\t", "\n", "\r"}

\* \d
IsDigit(c) == c \in Digits

\* \w
IsWordChar(c) == c \in Letters \/ c \in Digits \/ c = "_"

toLowerCaseChar(c) ==
    IF \E i \in 1..Len(UpperCase) : UpperCase[i] = c
    THEN LowerCase[CHOOSE i \in 1..Len(UpperCase) : UpperCase[i] = c]
    ELSE c

\* String.prototype.toLowerCase
toLowerCase(s) == IF Len(s) = 0 THEN <<>> ELSE [i \in 1..Len(s) |-> toLowerCaseChar(s[i])]

\* String.prototype.trim
trim(s) ==
    LET keep == {i \in 1..Len(s) : ~IsWhiteSpace(s[i])}
    IN  IF keep = {} THEN <<>>
        ELSE SubSeq(s, CHOOSE i \in keep : \A j \in keep : i <= j,
                       CHOOSE i \in keep : \A j \in keep : j <= i)

\* String.prototype.split with a one-character separator
RECURSIVE splitFrom(_, _, _)
splitFrom(s, sep, start) ==
    LET hits == {i \in start..Len(s) : s[i] = sep}
    IN  IF hits = {} THEN << SubSeq(s, start, Len(s)) >>
        ELSE LET i == CHOOSE h \in hits : \A k \in hits : h <= k
             IN  << SubSeq(s, start, i - 1) >> \o splitFrom(s, sep, i + 1)

split(s, sep) == splitFrom(s, sep, 1)

\* Array.prototype.join
RECURSIVE join(_, _)
join(arr, sep) ==
    IF Len(arr) = 0 THEN <<>>
    ELSE IF Len(arr) = 1 THEN arr[1]
    ELSE arr[1] \o sep \o join(Tail(arr), sep)

\* String.prototype.includes
includes(s, sub) ==
    \E i \in 1..(Len(s) - Len(sub) + 1) : SubSeq(s, i, i + Len(sub) - 1) = sub

\* String.prototype.endsWith
endsWith(s, suffix) ==
    /\ Len(suffix) <= Len(s)
    /\ SubSeq(s, Len(s) - Len(suffix) + 1, Len(s)) = suffix

\* Array.prototype.includes
arrayIncludes(arr, x) == \E i \in 1..Len(arr) : arr[i] = x

\* Array.prototype.indexOf: zero-based position of the first occurrence, or -1
indexOf(arr, x) ==
    IF arrayIncludes(arr, x)
    THEN (CHOOSE i \in 1..Len(arr) : arr[i] = x /\ \A j \in 1..(i - 1) : arr[j] # x) - 1
    ELSE -1

\* s.match(/\d+-\d+-\d+/): an unanchored search
matchesAmazonOrderId(s) ==
    \E a \in 1..Len(s) : \E b \in (a + 3)..Len(s) :
        /\ IsDigit(s[a])
        /\ s[a + 1] = "-"
        /\ \A k \in (a + 2)..(b - 1) : IsDigit(s[k])
        /\ s[b] = "-"
        /\ b + 1 <= Len(s)
        /\ IsDigit(s[b + 1])

\* s.match(/\w+-\d+/): an unanchored search
matchesWordDashNumber(s) ==
    \E a \in 1..(Len(s) - 2) :
        /\ IsWordChar(s[a])
        /\ s[a + 1] = "-"
        /\ IsDigit(s[a + 2])

\* s.match(/^\d+$/)
matchesAllDigits(s) == Len(s) >= 1 /\ \A i \in 1..Len(s) : IsDigit(s[i])

-----------------------------------------------------------------------------
(* The CSV validator of handleUpload                                       *)

f_order_id == <<"o", "r", "d", "e", "r", "-", "i", "d">>
f_ship_phone == <<"s", "h", "i", "p", "-", "p", "h", "o", "n", "e">>
f_sku == <<"s", "k", "u">>
f_quantity_purchased == <<"q", "u", "a", "n", "t", "i", "t", "y", "-", "p", "u", "r", "c", "h", "a", "s", "e", "d">>
f_recipient_name == <<"r", "e", "c", "i", "p", "i", "e", "n", "t", "-", "n", "a", "m", "e">>
f_ship_address_1 == <<"s", "h", "i", "p", "-", "a", "d", "d", "r", "e", "s", "s", "-", "1">>
f_ship_address_2 == <<"s", "h", "i", "p", "-", "a", "d", "d", "r", "e", "s", "s", "-", "2">>
f_ship_address_3 == <<"s", "h", "i", "p", "-", "a", "d", "d", "r", "e", "s", "s", "-", "3">>
f_ship_city == <<"s", "h", "i", "p", "-", "c", "i", "t", "y">>
f_ship_state == <<"s", "h", "i", "p", "-", "s", "t", "a", "t", "e">>
f_ship_postal_code == <<"s", "h", "i", "p", "-", "p", "o", "s", "t", "a", "l", "-", "c", "o", "d", "e">>
f_consumer_price == <<"c", "o", "n", "s", "u", "m", "e", "r", "_", "p", "r", "i", "c", "e">>
f_order_item_id == <<"o", "r", "d", "e", "r", "-", "i", "t", "e", "m", "-", "i", "d">>
f_product_name == <<"p", "r", "o", "d", "u", "c", "t", "-", "n", "a", "m", "e">>
f_shipping_price == <<"s", "h", "i", "p", "p", "i", "n", "g", "-", "p", "r", "i", "c", "e">>

\* const MAX_FILE_SIZE = 10 * 1024 * 1024
MAX_FILE_SIZE == 10 * 1024 * 1024

requiredFields_mut ==
    << f_order_id, f_sku, f_quantity_purchased,
       f_recipient_name, f_ship_address_1, f_ship_city,
       f_ship_state, f_ship_postal_code >>

requiredFields ==
    << f_order_id, f_sku, f_quantity_purchased,
       f_recipient_name, f_ship_address_1, f_ship_city,
       f_ship_state, f_ship_postal_code, f_order_item_id >>

expectedHeader_mut ==
    << f_order_id, f_ship_phone, f_sku, f_quantity_purchased,
       f_recipient_name, f_ship_address_1, f_ship_address_2,
       f_ship_address_3, f_ship_city, f_ship_state, f_ship_postal_code,
       f_consumer_price, f_order_item_id, f_product_name >>

expectedHeader ==
    << f_order_id, f_ship_phone, f_sku, f_quantity_purchased,
       f_recipient_name, f_ship_address_1, f_ship_address_2,
       f_ship_address_3, f_ship_city, f_ship_state, f_ship_postal_code,
       f_consumer_price, f_order_item_id, f_product_name, f_shipping_price >>

essentialFields_mut == << >>

essentialFields == << f_order_id, f_sku, f_quantity_purchased, f_recipient_name >>

\* header.split(',').map(field => field.trim().toLowerCase())
parseHeaderField(field) == toLowerCase(trim(field))

headerFieldsOf(header) ==
    LET fields == split(header, ",")
    IN  [i \in 1..Len(fields) |-> parseHeaderField(fields[i])]

normalizeFieldName(field) ==
    IF includes(field, <<"s", "h", "i", "p">>) /\ includes(field, <<"p", "h", "o", "n", "e">>)
    THEN f_ship_phone
    ELSE field

\* requiredFields.filter(field => !normalizedHeaderFields.includes(field.toLowerCase()))
missingFieldsOf(normalizedHeaderFields) ==
    SelectSeq(requiredFields,
              LAMBDA field : ~arrayIncludes(normalizedHeaderFields, toLowerCase(field)))

\* essentialFields.every(field => { index >= 0 && index < values.length })
canProceed_mut(headerFields, values) ==
    \E i \in 1..Len(essentialFields) :
        LET index == indexOf(headerFields, essentialFields[i])
        IN  index >= 0 /\ index < Len(values)

canProceed(headerFields, values) ==
    \A i \in 1..Len(essentialFields) :
        LET index == indexOf(headerFields, essentialFields[i])
        IN  index >= 0 /\ index < Len(values)

\* a call of toast.error / toast.warning / toast.info / toast.success
Toast(level, text, arg) == [level |-> level, text |-> text, arg |-> arg]

T_OnlyCsv == Toast("error", "Only CSV files are allowed", <<>>)
T_TooLarge == Toast("error", "File too large. Maximum size is 10MB", <<>>)
T_NoDataRow == Toast("error", "CSV file must contain header row and at least one data row", <<>>)
T_Missing(missingFields) ==
    Toast("error", "CSV missing required fields: ", join(missingFields, <<",", " ">>))
T_HeaderCount == Toast("warning", "Your CSV header has N columns, but we recommend 15", <<>>)
T_Essential == Toast("error", "Essential fields (order-id, sku, quantity) can't be mapped correctly", <<>>)
T_Mismatch == Toast("warning", "Column count mismatch between header and data", <<>>)
T_OrderIdFormat == Toast("warning", "Order ID format may not be recognized", <<>>)
T_SkuNumeric == Toast("warning", "SKU should be a numeric value", <<>>)

\* One check of the validator: the toasts it shows and whether it returns
\* from the handler (toast.error followed by return).
Pass(toasts) == [blocked |-> FALSE, toasts |-> toasts]
Block(toast) == [blocked |-> TRUE, toasts |-> << toast >>]

\* if (lines.length < 2) { toast.error(...); return; }
lineCountCheck(lines) == IF Len(lines) < 2 THEN Block(T_NoDataRow) ELSE Pass(<<>>)

\* if (missingFields.length > 0) { toast.error(...); return; }
missingFieldsCheck(missingFields) ==
    IF Len(missingFields) > 0 THEN Block(T_Missing(missingFields)) ELSE Pass(<<>>)

headerCountCheck_mut(headerFields) ==
    IF Len(headerFields) # Len(expectedHeader) THEN Block(T_HeaderCount) ELSE Pass(<<>>)

\* if (headerFields.length !== expectedHeader.length) toast.warning(...)
headerCountCheck(headerFields) ==
    IF Len(headerFields) # Len(expectedHeader) THEN Pass(<< T_HeaderCount >>) ELSE Pass(<<>>)

columnCountCheck_mut(headerFields, values) ==
    IF Len(values) # Len(headerFields)
    THEN IF ~canProceed(headerFields, values)
         THEN Pass(<< T_Essential >>)
         ELSE Pass(<< T_Mismatch >>)
    ELSE Pass(<<>>)

\* if (values.length !== headerFields.length) { ... canProceed ... }
columnCountCheck(headerFields, values) ==
    IF Len(values) # Len(headerFields)
    THEN IF ~canProceed(headerFields, values)
         THEN Block(T_Essential)
         ELSE Pass(<< T_Mismatch >>)
    ELSE Pass(<<>>)

\* Check order-id format (should look like Amazon order IDs)
orderIdCheck(headerFields, values) ==
    LET orderIdIndex == indexOf(headerFields, f_order_id)
    IN  IF orderIdIndex >= 0 /\ orderIdIndex < Len(values)
        THEN LET orderId == values[orderIdIndex + 1]
             IN  IF ~matchesAmazonOrderId(orderId) /\ ~matchesWordDashNumber(orderId)
                 THEN Pass(<< T_OrderIdFormat >>)
                 ELSE Pass(<<>>)
        ELSE Pass(<<>>)

\* Validate SKU is a number
skuCheck(headerFields, values) ==
    LET skuIndex == indexOf(headerFields, f_sku)
    IN  IF skuIndex >= 0 /\ skuIndex < Len(values)
        THEN LET sku == values[skuIndex + 1]
             IN  IF ~matchesAllDigits(sku) THEN Pass(<< T_SkuNumeric >>) ELSE Pass(<<>>)
        ELSE Pass(<<>>)

\* Sequencing of two checks in the handler: the second runs only when the
\* first did not return.
andThen(first, second) ==
    IF first.blocked THEN first
    ELSE [blocked |-> second.blocked, toasts |-> first.toasts \o second.toasts]

\* The body of fileReader.onload up to the call of uploadFile: the toasts it
\* shows, in order, and whether it returned before reaching uploadFile.
onloadChecks(content) ==
    LET lines == split(content, "\n")
        header == trim(lines[1])
        headerFields == headerFieldsOf(header)
        normalizedHeaderFields ==
            [i \in 1..Len(headerFields) |-> normalizeFieldName(headerFields[i])]
        missingFields == missingFieldsOf(normalizedHeaderFields)
        firstDataRow == trim(lines[2])
        values == split(firstDataRow, ",")
    IN  andThen(lineCountCheck(lines),
        andThen(missingFieldsCheck(missingFields),
        andThen(headerCountCheck(headerFields),
        andThen(columnCountCheck(headerFields, values),
        andThen(orderIdCheck(headerFields, values),
                skuCheck(headerFields, values))))))

-----------------------------------------------------------------------------
(* downloadTemplate                                                        *)

\* const header = "order-id,ship-phone,..."
templateHeaderText == <<
    "o", "r", "d", "e", "r", "-", "i", "d", ",", "s", "h", "i", "p", "-", "p", "h", "o", "n",
    "e", ",", "s", "k", "u", ",", "q", "u", "a", "n", "t", "i", "t", "y", "-", "p", "u", "r",
    "c", "h", "a", "s", "e", "d", ",", "r", "e", "c", "i", "p", "i", "e", "n", "t", "-", "n",
    "a", "m", "e", ",", "s", "h", "i", "p", "-", "a", "d", "d", "r", "e", "s", "s", "-", "1",
    ",", "s", "h", "i", "p", "-", "a", "d", "d", "r", "e", "s", "s", "-", "2", ",", "s", "h",
    "i", "p", "-", "a", "d", "d", "r", "e", "s", "s", "-", "3", ",", "s", "h", "i", "p", "-",
    "c", "i", "t", "y", ",", "s", "h", "i", "p", "-", "s", "t", "a", "t", "e", ",", "s", "h",
    "i", "p", "-", "p", "o", "s", "t", "a", "l", "-", "c", "o", "d", "e", ",", "c", "o", "n",
    "s", "u", "m", "e", "r", "_", "p", "r", "i", "c", "e", ",", "o", "r", "d", "e", "r", "-",
    "i", "t", "e", "m", "-", "i", "d", ",", "p", "r", "o", "d", "u", "c", "t", "-", "n", "a",
    "m", "e", ",", "s", "h", "i", "p", "p", "i", "n", "g", "-", "p", "r", "i", "c", "e" >>

\* const sampleRow = "123-4567890-1234567,..."
templateSampleRowText == <<
    "1", "2", "3", "-", "4", "5", "6", "7", "8", "9", "0", "-", "1", "2", "3", "4", "5", "6",
    "7", ",", "9", "8", "7", "6", "5", "4", "3", "2", "1", "0", ",", "1", "2", "3", "4", "5",
    "6", "7", "8", ",", "1", ",", "J", "o", "h", "n", " ", "D", "o", "e", ",", "1", "2", "3",
    " ", "M", "a", "i", "n", " ", "S", "t", ",", "A", "p", "t", " ", "4", "5", "6", ",", "N",
    "e", "a", "r", " ", "L", "a", "n", "d", "m", "a", "r", "k", ",", "N", "e", "w", " ", "Y",
    "o", "r", "k", ",", "N", "Y", ",", "1", "0", "0", "0", "1", ",", "2", "9", ".", "9", "9",
    ",", "0", "1", "2", "3", "4", "5", "6", "7", "8", "9", "1", "2", "3", "4", ",", "S", "a",
    "m", "p", "l", "e", " ", "P", "r", "o", "d", "u", "c", "t", ",", "4", ".", "9", "9" >>

\* [header, sampleRow].join('\n')
templateCsvContent == join(<< templateHeaderText, templateSampleRowText >>, << "\n" >>)

templateFileName ==
    <<"o", "r", "d", "e", "r", "_", "t", "e", "m", "p", "l", "a", "t", "e", ".", "c", "s", "v">>

-----------------------------------------------------------------------------
(* The files offered to the file input                                     *)

LF == << "\n" >>
CRLF == << "\r", "\n" >>
COMMA == << "," >>

without(arr, x) == SelectSeq(arr, LAMBDA y : y # x)

n_orders_csv == <<"o", "r", "d", "e", "r", "s", ".", "c", "s", "v">>
n_orders_CSV == <<"o", "r", "d", "e", "r", "s", ".", "C", "S", "V">>
n_orders_txt == <<"o", "r", "d", "e", "r", "s", ".", "t", "x", "t">>
n_orders_csv_bak == <<"o", "r", "d", "e", "r", "s", ".", "c", "s", "v", ".", "b", "a", "k">>
n_csv == <<"c", "s", "v">>
n_dot_csv == <<".", "c", "s", "v">>

\* header lines that hold all nine required columns: the template's, the nine
\* alone, one with upper case, padding and a ship/phone variant, one with
\* order-id moved last, one with a sixteenth column
fullHeaders ==
    << templateHeaderText,
       join(requiredFields, COMMA),
       join(<< <<" ", "O", "r", "d", "e", "r", "-", "I", "D", " ">>,
               <<"S", "h", "i", "p", "_", "P", "h", "o", "n", "e", "_", "N", "u", "m", "b", "e", "r">>,
               <<"S", "K", "U">> >>
            \o SubSeq(expectedHeader, 4, Len(expectedHeader)), COMMA),
       join(Tail(expectedHeader) \o << f_order_id >>, COMMA),
       join(expectedHeader \o << <<"n", "o", "t", "e", "s">> >>, COMMA) >>

\* header lines that lack a required column: the template less each of the
\* nine, less two of them, and with ship-address-1 renamed to a name that
\* holds both "ship" and "phone"
shortHeaders ==
    [k \in 1..Len(requiredFields) |->
            join(without(expectedHeader, requiredFields[k]), COMMA)]
    \o << join(without(without(expectedHeader, f_sku), f_order_item_id), COMMA),
          join([expectedHeader EXCEPT ![6] = f_ship_address_1 \o <<"-", "p", "h", "o", "n", "e">>],
               COMMA) >>

HeaderTexts == fullHeaders \o shortHeaders

sampleValues == split(templateSampleRowText, ",")

\* first data rows: the template's, rows cut short, an empty and a blank row, a
\* row with a sixteenth value, rows whose order-id or sku miss the patterns
RowTexts ==
    << templateSampleRowText,
       join(SubSeq(sampleValues, 1, 14), COMMA),
       join(SubSeq(sampleValues, 1, 5), COMMA),
       join(SubSeq(sampleValues, 1, 4), COMMA),
       join(SubSeq(sampleValues, 1, 3), COMMA),
       <<>>,
       << " ", " " >>,
       join(sampleValues \o << <<"x">> >>, COMMA),
       join([sampleValues EXCEPT ![1] = <<"A", "B", "C", "1", "2", "3">>], COMMA),
       join([sampleValues EXCEPT ![1] = <<"A", "B", "-", "1", "2">>], COMMA),
       join([sampleValues EXCEPT ![3] = <<"S", "K", "U", "-", "1">>], COMMA) >>

Layouts == << "header", "header LF", "header LF row", "header CRLF row CRLF",
              "header LF row LF more rows" >>

layoutContent(layout, h, r) ==
    CASE layout = "header" -> h
      [] layout = "header LF" -> h \o LF
      [] layout = "header LF row" -> h \o LF \o r
      [] layout = "header CRLF row CRLF" -> h \o CRLF \o r \o CRLF
      [] layout = "header LF row LF more rows" ->
            h \o LF \o r \o LF \o <<"x">> \o LF \o templateSampleRowText \o COMMA \o LF

\* a File object: name, size in bytes, and the text readAsText delivers
File(name, size, content) == [name |-> name, size |-> size, content |-> content]

templateFile == File(templateFileName, Len(templateCsvContent), templateCsvContent)

\* The same valid content under other names and sizes. A file at or over the
\* size limit stands for one whose further data rows fill it up to that size;
\* only its first two lines are inspected.
namedFiles ==
    << File(n_orders_CSV, Len(templateCsvContent), templateCsvContent),
       File(n_orders_txt, Len(templateCsvContent), templateCsvContent),
       File(n_orders_csv_bak, Len(templateCsvContent), templateCsvContent),
       File(n_csv, Len(templateCsvContent), templateCsvContent),
       File(n_dot_csv, Len(templateCsvContent), templateCsvContent),
       File(n_orders_csv, MAX_FILE_SIZE - 1, templateCsvContent),
       File(n_orders_csv, MAX_FILE_SIZE, templateCsvContent),
       File(n_orders_csv, MAX_FILE_SIZE + 1, templateCsvContent),
       File(n_orders_txt, MAX_FILE_SIZE + 1, templateCsvContent),
       File(n_orders_csv, 0, <<>>) >>

headerFiles(layout) ==
    [i \in 1..Len(HeaderTexts) |->
        LET content == layoutContent(layout, HeaderTexts[i], <<>>)
        IN  File(n_orders_csv, Len(content), content)]

gridFiles(layout, headers, rows) ==
    [i \in 1..(Len(headers) * Len(rows)) |->
        LET content == layoutContent(layout,
                                     headers[((i - 1) \div Len(rows)) + 1],
                                     rows[((i - 1) % Len(rows)) + 1])
        IN  File(n_orders_csv, Len(content), content)]

\* three files for the runs in which the user switches files: the template,
\* a file that passes with warnings and a file that lacks a required column
deskFiles ==
    << templateFile,
       gridFiles(Layouts[3], fullHeaders, RowTexts)[Len(RowTexts) + 2],
       gridFiles(Layouts[3], shortHeaders, RowTexts)[Len(RowTexts) + 1] >>

FileSystem ==
    deskFiles \o namedFiles
    \o headerFiles(Layouts[1]) \o headerFiles(Layouts[2])
    \o gridFiles(Layouts[3], fullHeaders, RowTexts)
    \o gridFiles(Layouts[4], fullHeaders, RowTexts)
    \o gridFiles(Layouts[5], fullHeaders, RowTexts)
    \o gridFiles(Layouts[3], shortHeaders, SubSeq(RowTexts, 1, 2))

FileIds == 1..Len(FileSystem)

\* selectedFile === null
NoFile == 0

\* FileReader.readAsText: the text delivered to onload
readAsText(f) == FileSystem[f].content

\* what fileReader.onload does with each file's text
OnloadResult == [f \in FileIds |-> onloadChecks(readAsText(f))]

-----------------------------------------------------------------------------
(* orderApi: the listing requests                                          *)

\* a property that is not there (undefined)
Undefined == "<undefined>"

\* truthiness of a string-valued filter
truthy(v) == v # "" /\ v # Undefined

\* const [page, setPage] = useState(1): setPage is never called
page == 1

\* const [pageSize] = useState(20)
pageSize == 20

\* The params object the listing functions other than getAllOrders build.
\* A key whose spread is skipped is Undefined.
listingParams(filters) ==
    [page |-> IF filters.page # 0 THEN filters.page ELSE 1,
     page_size |-> IF filters.page_size # 0 THEN filters.page_size ELSE 20,
     from_date |-> IF truthy(filters.from_date) THEN filters.from_date ELSE Undefined,
     to_date |-> IF truthy(filters.to_date) THEN filters.to_date ELSE Undefined,
     order_search_item |->
        IF truthy(filters.order_search_item) THEN filters.order_search_item ELSE Undefined,
     source_option |->
        IF truthy(filters.source_option) THEN filters.source_option ELSE Undefined,
     store_by |-> IF truthy(filters.store_by) THEN filters.store_by ELSE "last_modified"]

Get(url, params) == [method |-> "GET", url |-> url, params |-> params]

getAllOrders(filters) ==
    Get("/orders/get-all-orders",
        [listingParams(filters) EXCEPT
            !.source_option =
                IF truthy(filters.source_option) /\ filters.source_option # "All"
                THEN filters.source_option ELSE Undefined])

getConfirmedOrders(filters) == Get("/orders/get-confirmed-orders", listingParams(filters))

getWaitForShippingOrders(filters) == Get("/orders/get-unshipped-orders", listingParams(filters))

getUnpaidOrders(filters) == Get("/orders/get-unpaid-orders", listingParams(filters))

getAbnormalOrders(filters) == Get("/orders/get-returned-orders", listingParams(filters))

getTicketedOrders(filters) == Get("/orders/get-ticketed-orders", listingParams(filters))

getCancelledOrders(filters) == Get("/orders/get-cancelled-orders", listingParams(filters))

-----------------------------------------------------------------------------
(* The Orders component: listing                                           *)

\* the values of the TabsTrigger elements
TabTriggers == {"all", "awaiting-payment", "processing", "shipped",
                "abnormal", "ticketed", "cancelled"}

\* arguments of fetchTabOrders that no TabsTrigger carries
OtherTabIds == {"", "ALL", "returned", "unpaid", Undefined}

\* the filters object fetchTabOrders builds from the component's state
filtersOf(range, search, marketplace, sort) ==
    [from_date |-> range.from,
     to_date |-> range.to,
     order_search_item |-> search,
     source_option |-> marketplace,
     page |-> page,
     page_size |-> pageSize,
     store_by |-> sort]

currentFilters == filtersOf(dateRange, searchTerm, selectedMarketplace, sortBy)

tabRequest_mut(tab, filters) ==
    CASE tab = "awaiting-payment" -> getUnpaidOrders(filters)
      [] tab = "processing" -> getWaitForShippingOrders(filters)
      [] tab = "shipped" -> getConfirmedOrders(filters)
      [] tab = "abnormal" -> getAbnormalOrders(filters)
      [] tab = "ticketed" -> getTicketedOrders(filters)
      [] tab = "cancelled" -> getCancelledOrders(filters)
      [] tab = "all" -> getAllOrders(filters)
      [] OTHER -> getConfirmedOrders(filters)

\* switch (tab) { case ...: response = await orderApi.<fn>(filters) }
tabRequest(tab, filters) ==
    CASE tab = "awaiting-payment" -> getUnpaidOrders(filters)
      [] tab = "processing" -> getWaitForShippingOrders(filters)
      [] tab = "shipped" -> getConfirmedOrders(filters)
      [] tab = "abnormal" -> getAbnormalOrders(filters)
      [] tab = "ticketed" -> getTicketedOrders(filters)
      [] tab = "cancelled" -> getCancelledOrders(filters)
      [] OTHER -> getAllOrders(filters)

DigitText == << "0", "1", "2", "3", "4", "5", "6", "7", "8", "9" >>

\* Number.prototype.toString
RECURSIVE numberToString(_)
numberToString(n) ==
    IF n < 10 THEN DigitText[n + 1]
    ELSE numberToString(n \div 10) \o DigitText[(n % 10) + 1]

\* What axios rejects a listing request with. message is always a string;
\* response is << >> when no answer came, else the status and the body;
\* the body (response.data) is << >> when empty, else an object with its
\* detail and its other members.
AxiosError(message, response) == [message |-> << message >>, response |-> response]

Response(status, data) == << [status |-> status, data |-> data] >>

\* detail of a body: absent, a string, an array or an object
Detail(kind, items) == [kind |-> kind, items |-> items]

Data(detail, others) == << [detail |-> detail, others |-> others] >>

\* Array.prototype.join, on strings
RECURSIVE joinTexts(_, _, _)
joinTexts(texts, n, separator) ==
    IF n = 0 THEN ""
    ELSE IF n = 1 THEN texts[1]
    ELSE joinTexts(texts, n - 1, separator) \o separator \o texts[n]

quoted(text) == "\"" \o text \o "\""

\* JSON.stringify of an object whose members are strings
stringify(members) ==
    "{" \o joinTexts([i \in 1..Len(members) |->
                    quoted(members[i].key) \o ":" \o quoted(members[i].value)],
                Len(members), ",") \o "}"

\* JSON.stringify(error.response.data): the detail, where there is one, is
\* an object here
stringifyData(data) ==
    stringify(IF data.detail.kind = "absent" THEN data.others
              ELSE << [key |-> "detail", value |-> "[object]"] >> \o data.others)

getErrorMessage(thrown) ==
    IF thrown = << >> THEN "Unknown error occurred"
    ELSE LET error == thrown[1]
             response == error.response
         IN  IF error.message # << >>
             THEN IF error.message[1] = "Network Error"
                  THEN "Network error: Cannot connect to server. Please check your internet connection."
                  ELSE error.message[1]
             ELSE IF response # << >> /\ response[1].data # << >>
             THEN LET detail == response[1].data[1].detail
                  IN  IF detail.kind = "array"
                      THEN joinTexts([i \in 1..Len(detail.items) |-> detail.items[i]],
                                Len(detail.items), ", ")
                      ELSE IF detail.kind = "string" THEN detail.items[1]
                      ELSE IF detail.kind = "object"
                      THEN "Validation error. Please check your input data."
                      ELSE stringifyData(response[1].data[1])
             ELSE IF response # << >> /\ response[1].status # 0
             THEN CASE response[1].status = 400 -> "Bad request: The server cannot process the request"
                    [] response[1].status = 401 -> "Unauthorized: Please log in again"
                    [] response[1].status = 403 -> "Forbidden: You don't have permission to access this resource"
                    [] response[1].status = 404 -> "Not found: The requested resource does not exist"
                    [] response[1].status = 422 -> "Validation error: Please check your input data"
                    [] response[1].status = 500 -> "Server error: Something went wrong on the server"
                    [] OTHER -> "Server error (" \o numberToString(response[1].status) \o ")"
             ELSE "An unexpected error occurred"

\* the failures of a listing request in Spec and SpecFetch
ListingErrors ==
    { AxiosError("Network Error", << >>),
      AxiosError("Request failed with status code 500", Response(500, << >>)) }

\* a call of fetchTabOrders(tab) that has reached its await
Listing(tab, filters) == [tab |-> tab, filters |-> filters, request |-> tabRequest(tab, filters)]

\* bodies of 2xx listing responses: with and without orders / total_count
ListingResponses ==
    { [orders |-> << "order 1001", "order 1002" >>, total_count |-> 2],
      [message |-> "No orders found"] }

\* response.orders || []
ordersOf(response) ==
    IF "orders" \in DOMAIN response THEN response.orders ELSE << >>

\* response.total_count || 0
totalCountOf(response) ==
    IF "total_count" \in DOMAIN response THEN response.total_count ELSE 0

removeAt(seq, i) == SubSeq(seq, 1, i - 1) \o SubSeq(seq, i + 1, Len(seq))

\* fetchTabOrders(tab) up to its await: setIsLoading(true) and the request
fetchTabOrders(tab, filters) ==
    /\ isLoading' = TRUE
    /\ listings' = Append(listings, Listing(tab, filters))

\* fetchTabOrders after its await, the request answered 2xx
ListingResolves(i, response) ==
    /\ i \in 1..Len(listings)
    /\ orders' = ordersOf(response)
    /\ totalCount' = totalCountOf(response)
    /\ isLoading' = FALSE
    /\ listings' = removeAt(listings, i)
    /\ UNCHANGED << filterVars, uploadVars, rowVars, sessionVars >>

\* fetchTabOrders after its await, the request failed: catch and finally
ListingRejects(i, error) ==
    /\ i \in 1..Len(listings)
    /\ fetchFailure' =
            << [error |-> error,
                toast |-> Toast("error", "Failed to fetch orders: " \o getErrorMessage(<< error >>), <<>>)] >>
    /\ isLoading' = FALSE
    /\ listings' = removeAt(listings, i)
    /\ UNCHANGED << orders, totalCount, filterVars, uploadVars, sessionVars,
                    order, display, products, amount, lookup, hookVars, pageVars,
                    detailVars >>

\* a caller of fetchTabOrders(tab): the effect, or uploadFile
CallFetchTabOrders ==
    /\ Len(listings) < MaxInFlight
    /\ fetchTabOrders(selectedTab, currentFilters)
    /\ UNCHANGED << orders, totalCount, filterVars, uploadVars, rowVars, sessionVars >>

\* the backend's listing for a request: the orders the request selects
backendListing(request) ==
    [orders |-> << [order_id |-> 1001, selectedBy |-> request] >>,
     total_count |-> IF request = tabRequest("all", filtersOf([from |-> "", to |-> ""], "", "ALL", "last_modified"))
                     THEN 2 ELSE 1]

\* the effect on [selectedTab, searchTerm, ...] after a render with new state
effectFetchTabOrders(tab, filters) ==
    /\ Len(listings) < MaxInFlight
    /\ fetchTabOrders(tab, filters)
    /\ UNCHANGED << orders, totalCount, uploadVars, rowVars, sessionVars >>

\* Tabs onValueChange={setSelectedTab}, then the effect
onValueChange(tab) ==
    /\ tab # selectedTab
    /\ selectedTab' = tab
    /\ UNCHANGED << searchTerm, selectedMarketplace, dateRange, sortBy >>
    /\ effectFetchTabOrders(tab, currentFilters)

\* the search Input's onChange: setSearchTerm(e.target.value), then the effect
onSearchChange(term) ==
    /\ term # searchTerm
    /\ searchTerm' = term
    /\ UNCHANGED << selectedTab, selectedMarketplace, dateRange, sortBy >>
    /\ effectFetchTabOrders(selectedTab, filtersOf(dateRange, term, selectedMarketplace, sortBy))

\* the listing request in flight at position i is answered by the backend
ListingAnswered(i) ==
    /\ i \in 1..Len(listings)
    /\ ListingResolves(i, backendListing(listings[i].request))

-----------------------------------------------------------------------------
(* The Orders component: upload                                            *)

T_Uploading == Toast("info", "Uploading file...", <<>>)
T_ApiUploaded == Toast("success", "Orders uploaded successfully. Processed: N", <<>>)
T_Processed == Toast("success", "Successfully processed orders from <file>", <<>>)
T_Interceptor(error) == Toast("error", "responseErrorInterceptor", error)
T_ApiUploadFailed == Toast("error", "Failed to upload orders. Please try again.", <<>>)
T_UploadError(error) == Toast("error", "error.message", error)

\* failures of POST /orders/upload: no response, or a 4xx/5xx response
UploadErrors == { "Network Error", "Request failed with status code 422" }

\* one click on Upload: the file and the listing context its closures hold
Attempt(f, phase, toasts) ==
    [file |-> f, phase |-> phase, toasts |-> toasts,
     tab |-> selectedTab, filters |-> currentFilters]

notCsv(name) == ~endsWith(name, <<".", "c", "s", "v">>)

tooLarge_mut(size) == size >= MAX_FILE_SIZE

tooLarge(size) == size > MAX_FILE_SIZE

\* <Button onClick={() => setUploadDialogOpen(true)}>
OpenUploadDialog ==
    /\ ~uploadDialogOpen
    /\ uploadDialogOpen' = TRUE
    /\ UNCHANGED << selectedFile, isUploading, uploads, pickable, listingVars, rowVars, sessionVars >>

\* Cancel, or the dialog's onOpenChange(false)
CloseUploadDialog ==
    /\ uploadDialogOpen
    /\ uploadDialogOpen' = FALSE
    /\ UNCHANGED << selectedFile, isUploading, uploads, pickable, listingVars, rowVars, sessionVars >>

handleFileChange(f) ==
    /\ uploadDialogOpen
    /\ f \in pickable
    /\ selectedFile' = f
    /\ UNCHANGED << uploadDialogOpen, isUploading, uploads, pickable, listingVars, rowVars, sessionVars >>

\* handleUpload up to fileReader.readAsText(selectedFile); the button is
\* disabled while !selectedFile || isUploading
handleUpload ==
    /\ uploadDialogOpen
    /\ selectedFile # NoFile
    /\ ~isUploading
    /\ Len(uploads) < MaxAttempts
    /\ uploads' = Append(uploads,
            IF notCsv(FileSystem[selectedFile].name)
            THEN Attempt(selectedFile, "Blocked", << T_OnlyCsv >>)
            ELSE IF tooLarge(FileSystem[selectedFile].size)
            THEN Attempt(selectedFile, "Blocked", << T_TooLarge >>)
            ELSE Attempt(selectedFile, "Validating", << >>))
    /\ UNCHANGED << uploadDialogOpen, selectedFile, isUploading, pickable, listingVars, rowVars, sessionVars >>

\* fileReader.onload: the checks, then uploadFile up to its await
\* (setIsUploading(true), toast.info, the POST)
fileReaderOnload(i) ==
    /\ i \in 1..Len(uploads)
    /\ uploads[i].phase = "Validating"
    /\ LET result == OnloadResult[uploads[i].file]
       IN  IF result.blocked
           THEN /\ uploads' = [uploads EXCEPT ![i].phase = "Blocked",
                                              ![i].toasts = result.toasts]
                /\ UNCHANGED isUploading
           ELSE /\ uploads' = [uploads EXCEPT ![i].phase = "Uploading",
                                              ![i].toasts = result.toasts \o << T_Uploading >>]
                /\ isUploading' = TRUE
    /\ UNCHANGED << uploadDialogOpen, selectedFile, pickable, listingVars, rowVars, sessionVars >>

\* uploadFile after its await, the POST answered 2xx: the success toasts,
\* setUploadDialogOpen(false), fetchTabOrders(selectedTab), then finally
uploadResolves(i) ==
    /\ i \in 1..Len(uploads)
    /\ uploads[i].phase = "Uploading"
    /\ uploads' = [uploads EXCEPT ![i].phase = "Succeeded",
                                  ![i].toasts = @ \o << T_ApiUploaded, T_Processed >>]
    /\ uploadDialogOpen' = FALSE
    /\ fetchTabOrders(uploads[i].tab, uploads[i].filters)
    /\ isUploading' = FALSE
    /\ selectedFile' = NoFile
    /\ UNCHANGED << orders, totalCount, filterVars, pickable, rowVars, sessionVars >>

\* uploadFile after its await, the POST failed: the interceptor's toast, the
\* API function's toast, catch (error.message is set on every axios error),
\* then finally
uploadRejects(i, error) ==
    /\ i \in 1..Len(uploads)
    /\ uploads[i].phase = "Uploading"
    /\ uploads' = [uploads EXCEPT ![i].phase = "Failed",
                                  ![i].toasts = @ \o << T_Interceptor(error), T_ApiUploadFailed,
                                                        T_UploadError(error) >>]
    /\ isUploading' = FALSE
    /\ selectedFile' = NoFile
    /\ UNCHANGED << uploadDialogOpen, pickable, listingVars, rowVars, sessionVars >>

-----------------------------------------------------------------------------
(* The page as mounted: the effect has called fetchTabOrders("all")        *)

-----------------------------------------------------------------------------
(* Session: local storage, the API clients and their interceptors          *)

\* localStorage.getItem of a key that is not stored
Null == "<null>"

\* truthiness of a stored item or of a field of a response
present(v) == v # Null /\ v # Undefined /\ v # ""

\* the axios instances userApi, orderApiClient and billApiClient
Clients == {"userApi", "orderApiClient", "billApiClient"}

NoCredentials == [accessToken |-> Null, refreshToken |-> Null, user |-> Null]

removeItem(storage, key) == [storage EXCEPT ![key] = Null]

\* setItem stores String(value)
setItem(storage, key, value) ==
    [storage EXCEPT ![key] = IF value = Undefined THEN "undefined" ELSE value]

\* the user profiles of the model and their JSON texts
JSONstringify(value) ==
    CASE value = "user-1" -> "{\"customer_id\":1}"
      [] value = "user-2" -> "{\"customer_id\":2}"
      [] OTHER -> Undefined

SyntaxError == "<SyntaxError>"

JSONparse(text) ==
    CASE text = "{\"customer_id\":1}" -> "user-1"
      [] text = "{\"customer_id\":2}" -> "user-2"
      [] OTHER -> SyntaxError

\* const axiosConfig = { timeout, headers: { 'Content-Type': 'application/json' } }
axiosConfig == [headers |-> ("Content-Type" :> "application/json")]

\* `Bearer ${token}`
Bearer(token) == << "Bearer", token >>

addAuthToken_mut(config, storage) ==
    [config EXCEPT !.headers = ("Authorization" :> Bearer(storage["accessToken"])) @@ @]

\* the request interceptor of the three clients
addAuthToken(config, storage) ==
    LET token == storage["accessToken"]
    IN  IF present(token)
        THEN [config EXCEPT !.headers = ("Authorization" :> Bearer(token)) @@ @]
        ELSE config

\* a request as it leaves a client, the request interceptors applied
Request(client, method, url, storage) ==
    [client |-> client, method |-> method, url |-> url,
     headers |-> addAuthToken(axiosConfig, storage).headers]

\* the calls of the model, one per client: authApi.login,
\* orderApi.getAllOrders and billApi.getWalletBalance
ApiCalls ==
    { [client |-> "orderApiClient", method |-> "get", url |-> "/orders/get-all-orders"],
      [client |-> "billApiClient", method |-> "get", url |-> "/wallet/balance"] }

\* the errors axios rejects a request with: no response, or a response with
\* a status outside 2xx and the message axios gives it
NetworkError == [response |-> FALSE, request |-> TRUE, status |-> 0, message |-> "Network Error"]

HttpError(status) ==
    [response |-> TRUE, request |-> TRUE, status |-> status,
     message |-> "Request failed with status code " \o numberToString(status)]

ResponseErrors == { NetworkError, HttpError(401), HttpError(422), HttpError(500), HttpError(404) }

\* error.message.includes('Network Error') || error.message.includes('CORS')
mentionsNetworkOrCors(message) == message = "Network Error"

T_NetworkError(message) == Toast("error", "Network error: . Please check your connection.", message)
T_Cors == Toast("error", "CORS Error: Unable to connect to the backend service.", <<>>)
T_SessionExpired == Toast("error", "Your session has expired. Please log in again.", <<>>)
T_Validation == Toast("error", "Validation error: ", "Validation error")
T_ServerError == Toast("error", "Server error. Our team has been notified.", <<>>)
T_OtherError(message) == Toast("error", "Error: ", message)

\* What an interceptor works on: the storage, the route, the navigation it
\* asks for (window.location.href = ...) and the toasts it shows.
Env(storage, path) ==
    [localStorage |-> storage, pathname |-> path, href |-> Undefined, toasts |-> << >>]

responseErrorInterceptor(error, env) ==
    IF ~error.response
    THEN [env EXCEPT !.toasts = Append(@, T_NetworkError(error.message))]
    ELSE IF mentionsNetworkOrCors(error.message)
    THEN [env EXCEPT !.toasts = Append(@, T_Cors)]
    ELSE IF error.status = 401
    THEN [env EXCEPT
            !.localStorage = removeItem(removeItem(removeItem(@, "accessToken"),
                                                   "refreshToken"), "user"),
            !.toasts = Append(@, T_SessionExpired),
            !.href = IF env.pathname # "/auth/login" THEN "/auth/login" ELSE @]
    ELSE IF error.status = 422
    THEN [env EXCEPT !.toasts = Append(@, T_Validation)]
    ELSE IF error.status >= 500
    THEN [env EXCEPT !.toasts = Append(@, T_ServerError)]
    ELSE [env EXCEPT !.toasts = Append(@, T_OtherError(error.message))]

\* client.interceptors.response.use(responseSuccessInterceptor, responseErrorInterceptor):
\* the rejection handlers registered on each client, in order
responseInterceptors_mut ==
    [client \in Clients |->
        IF client = "orderApiClient"
        THEN << "responseErrorInterceptor", "responseErrorInterceptor" >>
        ELSE << "responseErrorInterceptor" >>]

responseInterceptors == [client \in Clients |-> << "responseErrorInterceptor" >>]

\* a rejection passes through the handlers of the chain, each of which
\* rejects again with the same error
RECURSIVE runRejected(_, _, _, _)
runRejected(handlers, n, error, env) ==
    IF n = 0 THEN env
    ELSE responseErrorInterceptor(error, runRejected(handlers, n - 1, error, env))

T_LoginSuccessful == Toast("success", "Login successful!", <<>>)
T_LoginFailed == Toast("error", "Login failed. Please check your credentials and try again.", <<>>)
T_LoginError(message) == Toast("error", "errorMessage", message)

\* the bodies of a 2xx answer to POST /login
LoginResponses ==
    { [access_token |-> "token-2", refresh_token |-> "refresh-2", user |-> "user-2"],
      [access_token |-> Undefined, refresh_token |-> Undefined, user |-> "user-2"],
      [access_token |-> "token-2", refresh_token |-> "refresh-2", user |-> Undefined] }

Settled(request, outcome, status, toasts) ==
    [client |-> request.client, url |-> request.url, headers |-> request.headers,
     outcome |-> outcome, status |-> status, toasts |-> toasts]

NothingSettled == Settled(Request("userApi", "get", "", NoCredentials), "none", 0, << >>)

\* an API function called by a page: the request leaves through its client
apiCall(call) ==
    /\ Len(requests) < MaxRequests
    /\ requests' = Append(requests, Request(call.client, call.method, call.url, localStorage))
    /\ UNCHANGED << localStorage, pathname, user, settled, listingVars, uploadVars, rowVars >>

\* Login.handleSubmit -> AuthProvider.login -> authApi.login, up to its await
login ==
    /\ pathname = "/auth/login"
    /\ Len(requests) < MaxRequests
    /\ requests' = Append(requests, Request("userApi", "post", "/login", localStorage))
    /\ UNCHANGED << localStorage, pathname, user, settled, listingVars, uploadVars, rowVars >>

\* a 2xx answer. For POST /login: authApi.login stores the three items,
\* AuthProvider.login sets the user or throws on a body without user or
\* access_token, Login.handleSubmit navigates to / when login returned.
requestResolves(i, data) ==
    /\ i \in 1..Len(requests)
    /\ requests' = removeAt(requests, i)
    /\ IF requests[i].url = "/login"
       THEN /\ localStorage' =
                    setItem(setItem(setItem(localStorage, "accessToken", data.access_token),
                                    "refreshToken", data.refresh_token),
                            "user", JSONstringify(data.user))
            /\ IF ~present(data.user) \/ ~present(data.access_token)
               THEN /\ settled' = Settled(requests[i], "resolved", 200,
                                          << T_LoginSuccessful,
                                             T_LoginError("Invalid response format from login endpoint") >>)
                    /\ UNCHANGED << user, pathname >>
               ELSE /\ settled' = Settled(requests[i], "resolved", 200, << T_LoginSuccessful >>)
                    /\ user' = data.user
                    /\ pathname' = "/"
       ELSE /\ settled' = Settled(requests[i], "resolved", 200, << >>)
            /\ UNCHANGED << localStorage, user, pathname >>
    /\ UNCHANGED << listingVars, uploadVars, rowVars >>

\* an answer that axios rejects: the client's rejection handlers run, then
\* the catch blocks of the caller. window.location.href = '/auth/login' loads
\* the application anew: the requests in flight are dropped and the
\* AuthProvider starts with the user it finds in the storage.
requestRejects(i, error) ==
    /\ i \in 1..Len(requests)
    /\ LET handlers == responseInterceptors[requests[i].client]
           env == runRejected(handlers, Len(handlers), error, Env(localStorage, pathname))
           callerToasts ==
                IF requests[i].url = "/login"
                THEN << T_LoginFailed, T_LoginError(error.message) >>
                ELSE << >>
       IN  /\ localStorage' = env.localStorage
           /\ settled' = Settled(requests[i], "rejected", error.status, env.toasts \o callerToasts)
           /\ IF env.href # Undefined
              THEN /\ pathname' = env.href
                   /\ requests' = << >>
                   /\ user' = IF present(env.localStorage["user"])
                              THEN JSONparse(env.localStorage["user"]) ELSE Null
              ELSE /\ requests' = removeAt(requests, i)
                   /\ UNCHANGED << pathname, user >>
    /\ UNCHANGED << listingVars, uploadVars, rowVars >>

authApiLogout_mut(storage) ==
    removeItem(removeItem(storage, "accessToken"), "user")

\* authApi.logout
authApiLogout(storage) ==
    removeItem(removeItem(removeItem(storage, "accessToken"), "refreshToken"), "user")

\* AuthProvider.logout: authApi.logout(); setUser(null); navigate('/auth/login')
logout ==
    /\ localStorage' = authApiLogout(localStorage)
    /\ user' = Null
    /\ pathname' = "/auth/login"
    /\ UNCHANGED << requests, settled, listingVars, uploadVars, rowVars >>

\* the routes of the model
Routes == { "/", "/orders", "/auth/login" }

\* the user follows a link to another route
navigate(path) ==
    /\ path # pathname
    /\ pathname' = path
    /\ UNCHANGED << localStorage, user, requests, settled, listingVars, uploadVars, rowVars >>

\* a signed-in user on the Orders page
Credentials == [accessToken |-> "token-1", refreshToken |-> "refresh-1",
                user |-> JSONstringify("user-1")]

InitSession ==
    /\ localStorage = Credentials
    /\ pathname = "/orders"
    /\ user = "user-1"
    /\ requests = << >>
    /\ settled = NothingSettled

-----------------------------------------------------------------------------
(* useApi: a component that is rendered with the props skip and deps and   *)
(* the user of the auth context, from its first effect to its unmount      *)

\* what apiCall's promise settles with: a result, an Error, or a thrown
\* value that is no Error
Resolved(result) == [ok |-> TRUE, isError |-> FALSE, value |-> result]
Rejected(isError, value) == [ok |-> FALSE, isError |-> isError, value |-> value]

\* a call of apiCall awaited by fetchData of an effect, with the isMounted
\* of that effect, or awaited by refetch
Awaited(by, isMounted) == [by |-> by, isMounted |-> isMounted]

\* the state after setData(result); setIsLoading(false); onSuccess?.(result)
succeed(h, result) ==
    [h EXCEPT !.data = IF h.mounted THEN result ELSE @,
              !.isLoading = IF h.mounted THEN FALSE ELSE @,
              !.called = << [callback |-> "onSuccess", with |-> result] >>,
              !.settled = << >>]

\* the state after the catch: setError(error); setIsLoading(false); onError?.(error)
fail(h, err) ==
    LET error == IF err.isError THEN err.value ELSE "An unknown error occurred"
    IN  [h EXCEPT !.error = IF h.mounted THEN error ELSE @,
                  !.isLoading = IF h.mounted THEN FALSE ELSE @,
                  !.called = << [callback |-> "onError", with |-> error] >>,
                  !.settled = << >>]

\* the body of the effect up to its await: fetchData()
fetchData(h) ==
    IF h.skip
    THEN [h EXCEPT !.isLoading = FALSE, !.called = << >>, !.settled = << >>]
    ELSE [h EXCEPT !.isLoading = TRUE, !.error = Null, !.called = << >>, !.settled = << >>]

\* the cleanup of the effect: isMounted = false. Nothing is aborted.
cleanup_mut(awaited) == [i \in 1..Len(awaited) |-> awaited[i]]

cleanup(awaited) ==
    [i \in 1..Len(awaited) |-> [awaited[i] EXCEPT !.isMounted = FALSE]]

\* the component is rendered with another skip, deps or user: the cleanup of
\* the last effect runs, then the effect again
rerender(skip, dep, userId) ==
    /\ hook.mounted
    /\ << skip, dep, userId >> # << hook.skip, hook.dep, hook.userId >>
    /\ skip \/ Len(effects) < MaxInFlight
    /\ hook' = fetchData([hook EXCEPT !.skip = skip, !.dep = dep, !.userId = userId])
    /\ effects' = IF skip THEN cleanup(effects)
                  ELSE Append(cleanup(effects), Awaited("effect", TRUE))
    /\ UNCHANGED << order, display, products, amount, lookup, failureVars, pageVars, detailVars, listingVars, uploadVars, sessionVars >>

\* the component is unmounted: the cleanup of the last effect runs, and
\* React drops the state updates of an unmounted component
unmount ==
    /\ hook.mounted
    /\ hook' = [hook EXCEPT !.mounted = FALSE, !.called = << >>, !.settled = << >>]
    /\ effects' = cleanup(effects)
    /\ UNCHANGED << order, display, products, amount, lookup, failureVars, pageVars, detailVars, listingVars, uploadVars, sessionVars >>

\* the apiCall awaited by fetchData settles
effectCompletes(i, outcome) ==
    /\ i \in 1..Len(effects)
    /\ effects[i].by = "effect"
    /\ effects' = removeAt(effects, i)
    /\ hook' = [(IF ~effects[i].isMounted THEN [hook EXCEPT !.called = << >>]
                 ELSE IF outcome.ok THEN succeed(hook, outcome.value)
                 ELSE fail(hook, outcome))
                EXCEPT !.settled = << effects[i] >>]
    /\ UNCHANGED << order, display, products, amount, lookup, failureVars, pageVars, detailVars, listingVars, uploadVars, sessionVars >>

\* refetch up to its await
refetch ==
    /\ hook.mounted
    /\ Len(effects) < MaxInFlight
    /\ hook' = [hook EXCEPT !.isLoading = TRUE, !.error = Null, !.called = << >>,
                             !.settled = << >>]
    /\ effects' = Append(effects, Awaited("refetch", TRUE))
    /\ UNCHANGED << order, display, products, amount, lookup, failureVars, pageVars, detailVars, listingVars, uploadVars, sessionVars >>

\* the apiCall awaited by refetch settles: refetch has no isMounted
refetchCompletes(i, outcome) ==
    /\ i \in 1..Len(effects)
    /\ effects[i].by = "refetch"
    /\ effects' = removeAt(effects, i)
    /\ hook' = [(IF outcome.ok THEN succeed(hook, outcome.value) ELSE fail(hook, outcome))
                EXCEPT !.settled = << effects[i] >>]
    /\ UNCHANGED << order, display, products, amount, lookup, failureVars, pageVars, detailVars, listingVars, uploadVars, sessionVars >>

\* a component that is not rendered
NoHook == [mounted |-> FALSE, skip |-> TRUE, dep |-> "", userId |-> Undefined,
           data |-> Undefined, error |-> Null, isLoading |-> FALSE, called |-> << >>,
           settled |-> << >>]

\* the first render and its effect: useState(initialData), useState(null),
\* useState(!skip), then fetchData
firstRender(skip, dep, userId) ==
    fetchData([mounted |-> TRUE, skip |-> skip, dep |-> dep, userId |-> userId,
               data |-> Undefined, error |-> Null, isLoading |-> ~skip, called |-> << >>,
               settled |-> << >>])

-----------------------------------------------------------------------------
(* Registration: what the user is shown when POST /register is answered    *)
(* with an error (responseErrorInterceptor, authApi.register,               *)
(* AuthProvider.register)                                                   *)

\* JSON values of a response body. A text is a sequence of fragments, and
\* concatenation appends the fragments.
JsString(text) == [type |-> "string", text |-> text, items |-> << >>]
JsArray(items) == [type |-> "array", text |-> << >>, items |-> items]
JsObject(members) == [type |-> "object", text |-> << >>, items |-> members]
JsUndefined == [type |-> "undefined", text |-> << >>, items |-> << >>]

Member(key, value) == [key |-> key, value |-> value]

\* value[key], undefined when value is no object or has no such member
memberOf(value, key) ==
    IF value.type = "object" /\ \E i \in 1..Len(value.items) : value.items[i].key = key
    THEN value.items[CHOOSE i \in 1..Len(value.items) : value.items[i].key = key].value
    ELSE JsUndefined

\* ToBoolean
truthyValue(value) ==
    /\ value.type # "undefined"
    /\ value.type = "string" => value.text # << >>

\* fragments joined with a separator
RECURSIVE joinFragments(_, _, _)
joinFragments(texts, n, separator) ==
    IF n = 0 THEN << >>
    ELSE IF n = 1 THEN texts[1]
    ELSE joinFragments(texts, n - 1, separator) \o << separator >> \o texts[n]

\* String(value), as a template literal `${value}` applies it:
\* Array.prototype.toString joins with ",", Object.prototype.toString gives
\* "[object Object]"
RECURSIVE templateText(_)
templateText(value) ==
    CASE value.type = "string" -> value.text
      [] value.type = "array" ->
            joinFragments([i \in 1..Len(value.items) |->
                              IF value.items[i].type = "undefined" THEN << >>
                              ELSE templateText(value.items[i])],
                          Len(value.items), ",")
      [] value.type = "object" -> << "[object Object]" >>
      [] OTHER -> << "undefined" >>

\* JSON.stringify(value)
RECURSIVE jsonText(_)
jsonText(value) ==
    CASE value.type = "string" -> << "\"" >> \o value.text \o << "\"" >>
      [] value.type = "array" ->
            << "[" >> \o joinFragments([i \in 1..Len(value.items) |-> jsonText(value.items[i])],
                                       Len(value.items), ",") \o << "]" >>
      [] value.type = "object" ->
            << "{" >> \o joinFragments([i \in 1..Len(value.items) |->
                                            << "\"", value.items[i].key, "\":" >>
                                            \o jsonText(value.items[i].value)],
                                       Len(value.items), ",") \o << "}" >>
      [] OTHER -> << "undefined" >>

\* an answer with a status outside 2xx to POST /register
Answer(status, statusText, data) == [status |-> status, statusText |-> statusText, data |-> data]

Notice(level, text) == [level |-> level, text |-> text]

\* responseErrorInterceptor for this answer:
\* const errorDetails = error.response.data?.detail || 'Validation error'
interceptorNotice(answer) ==
    LET detail == memberOf(answer.data, "detail")
    IN  IF answer.status = 401
        THEN Notice("error", << "Your session has expired. Please log in again." >>)
        ELSE IF answer.status = 422
        THEN Notice("error", << "Validation error: " >> \o
                        (IF truthyValue(detail) THEN templateText(detail)
                         ELSE << "Validation error" >>))
        ELSE IF answer.status >= 500
        THEN Notice("error", << "Server error. Our team has been notified." >>)
        ELSE Notice("error", << "Error: " >> \o
                        (IF truthyValue(detail) THEN templateText(detail)
                         ELSE << "Request failed with status code ", numberToString(answer.status) >>))

\* the catch of authApi.register, for an error with a response
registerNotice(answer) ==
    LET data == answer.data
        detail == memberOf(data, "detail")
    IN  IF answer.status = 422
        THEN IF detail.type = "array"
             THEN Notice("error", << "Validation error: " >> \o
                    joinFragments([i \in 1..Len(detail.items) |->
                                      IF detail.items[i].type = "string" THEN detail.items[i].text
                                      ELSE jsonText(detail.items[i])],
                                  Len(detail.items), ", "))
             ELSE IF detail.type = "string"
             THEN Notice("error", << "Validation error: " >> \o detail.text)
             ELSE IF truthyValue(detail)
             THEN Notice("error", << "Validation error: " >> \o jsonText(detail))
             ELSE IF data.type \in { "object", "array" }
             THEN Notice("error", << "Validation errors: " >> \o
                    joinFragments([i \in 1..Len(data.items) |->
                                      << data.items[i].key, ": " >>
                                      \o templateText(data.items[i].value)],
                                  Len(data.items), ", "))
             ELSE Notice("error", << "Validation error: " >> \o
                    jsonText(IF truthyValue(data) THEN data
                             ELSE JsString(<< "Unknown validation error" >>)))
        ELSE Notice("error", << "Registration failed (", numberToString(answer.status), "): " >> \o
                    (IF truthyValue(detail) THEN templateText(detail)
                     ELSE IF answer.statusText # "" THEN << answer.statusText >>
                     ELSE << "Unknown error" >>))

\* the catch of AuthProvider.register
authRegisterNotice(answer) ==
    LET detail == memberOf(answer.data, "detail")
    IN  IF truthyValue(detail)
        THEN IF detail.type = "array"
             THEN Notice("error",
                    joinFragments([i \in 1..Len(detail.items) |->
                                      IF detail.items[i].type = "string" THEN detail.items[i].text
                                      ELSE IF truthyValue(memberOf(detail.items[i], "msg"))
                                      THEN templateText(memberOf(detail.items[i], "msg"))
                                      ELSE jsonText(detail.items[i])],
                                  Len(detail.items), ", "))
             ELSE IF detail.type = "string"
             THEN Notice("error", detail.text)
             ELSE Notice("error", << "Registration failed. Please try again." >>)
        ELSE Notice("error", << "Request failed with status code ", numberToString(answer.status) >>)

\* POST /register is answered with an error status: the rejection handler
\* of userApi, then the catch of authApi.register, then the catch of
\* AuthProvider.register each show a toast; Signup's catch shows none
registerRejected(answer) ==
    /\ registration = << >>
    /\ registration' = << [answer |-> answer,
                           toasts |-> << interceptorNotice(answer), registerNotice(answer),
                                         authRegisterNotice(answer) >>] >>
    /\ UNCHANGED << order, display, products, amount, lookup, hookVars, failureVars,
                    detailVars, listingVars, uploadVars, sessionVars, walletVars, card >>

\* the Signup form is shown again
registerAgain ==
    /\ registration # << >>
    /\ registration' = << >>
    /\ UNCHANGED << order, display, products, amount, lookup, hookVars, failureVars,
                    detailVars, listingVars, uploadVars, sessionVars, walletVars, card >>

-----------------------------------------------------------------------------
(* getDisplayStatus                                                        *)

Variant(variant, label) == [variant |-> variant, label |-> label]

\* the own properties of the statusVariants object
statusVariants ==
    ("OS" :> Variant("outline", "Processing")) @@
    ("OB" :> Variant("secondary", "Ordered")) @@
    ("OC" :> Variant("destructive", "Cancelled")) @@
    ("PU" :> Variant("outline", "Unpaid")) @@
    ("PD" :> Variant("secondary", "Paid")) @@
    ("SU" :> Variant("outline", "Unshipped")) @@
    ("SP" :> Variant("secondary", "Processing")) @@
    ("SS" :> Variant("default", "Shipped")) @@
    ("RA" :> Variant("outline", "Awaiting Return")) @@
    ("RR" :> Variant("default", "Return Requested")) @@
    ("RC" :> Variant("secondary", "Return Completed")) @@
    ("RS" :> Variant("secondary", "Return Shipped")) @@
    ("RD" :> Variant("destructive", "Return Denied")) @@
    ("DP" :> Variant("outline", "Dispute Pending")) @@
    ("DD" :> Variant("destructive", "Dispute Denied")) @@
    ("DN" :> Variant("default", "No Dispute")) @@
    ("AD" :> Variant("secondary", "Dispute Accepted")) @@
    ("shipped" :> Variant("default", "Shipped")) @@
    ("processing" :> Variant("secondary", "Processing")) @@
    ("delivered" :> Variant("default", "Delivered")) @@
    ("pending" :> Variant("outline", "Pending")) @@
    ("paid" :> Variant("secondary", "Paid")) @@
    ("cancelled" :> Variant("destructive", "Cancelled")) @@
    ("awaiting-payment" :> Variant("outline", "Awaiting Payment")) @@
    ("ticketed" :> Variant("secondary", "Ticketed")) @@
    ("abnormal" :> Variant("destructive", "Abnormal"))

\* statusVariants is an object literal: a property read that finds no own
\* property goes on to Object.prototype, whose members are functions
ObjectPrototypeKeys ==
    {"constructor", "toString", "toLocaleString", "valueOf", "hasOwnProperty",
     "isPrototypeOf", "propertyIsEnumerable"}

\* statusVariants[code]: the value read, whether it is truthy, and its
\* .label and .variant
statusVariantsAt(code) ==
    IF code \in DOMAIN statusVariants
    THEN [truthy |-> TRUE, label |-> statusVariants[code].label,
          variant |-> statusVariants[code].variant]
    ELSE IF code \in ObjectPrototypeKeys
    THEN [truthy |-> TRUE, label |-> Undefined, variant |-> Undefined]
    ELSE [truthy |-> FALSE, label |-> Undefined, variant |-> Undefined]

Display(status, variant) == [status |-> status, variant |-> variant]

getDisplayStatus_mut(o) ==
    IF o.status_payment = "PU" THEN Display("Awaiting Payment", "outline")
    ELSE IF o.status = "OC" THEN Display("Cancelled", "destructive")
    ELSE IF statusVariantsAt(o.status).truthy
    THEN Display(statusVariantsAt(o.status).label, statusVariantsAt(o.status).variant)
    ELSE Display("Processing", "secondary")

getDisplayStatus(o) ==
    IF o.status = "OC" THEN Display("Cancelled", "destructive")
    ELSE IF o.status_payment = "PU" THEN Display("Awaiting Payment", "outline")
    ELSE IF truthy(o.status_return) /\ o.status_return # "RN"
            /\ statusVariantsAt(o.status_return).truthy
    THEN Display(statusVariantsAt(o.status_return).label,
                 statusVariantsAt(o.status_return).variant)
    ELSE IF truthy(o.status_dispute) /\ o.status_dispute # "DN"
            /\ statusVariantsAt(o.status_dispute).truthy
    THEN Display(statusVariantsAt(o.status_dispute).label,
                 statusVariantsAt(o.status_dispute).variant)
    ELSE IF truthy(o.status_shipping) /\ statusVariantsAt(o.status_shipping).truthy
    THEN Display(statusVariantsAt(o.status_shipping).label,
                 statusVariantsAt(o.status_shipping).variant)
    ELSE IF statusVariantsAt(o.status).truthy
    THEN Display(statusVariantsAt(o.status).label, statusVariantsAt(o.status).variant)
    ELSE Display("Processing", "secondary")

-----------------------------------------------------------------------------
(* calculateOrderAmount                                                    *)
(*                                                                         *)
(* A JavaScript Number is an IEEE 754 double. A finite Number that is not  *)
(* negative is kept as m * 2^e, m a natural number written as its bits,    *)
(* most significant first, without leading or trailing zero bits (m is odd *)
(* or zero), so that equal Numbers are equal records. Sums and products    *)
(* are computed exactly and then rounded to 53 significant bits, ties to   *)
(* even. The prices and quantities of the model are far from the overflow  *)
(* and underflow thresholds, and none is negative.                         *)

\* significant bits of a double
SignificandBits == 53

NaN == [nan |-> TRUE, m |-> << >>, e |-> 0]

Number(m, e) == [nan |-> FALSE, m |-> m, e |-> e]

Zero == Number(<< >>, 0)

zeros(n) == [i \in 1..n |-> 0]

\* the bits of m * 2^e without leading and trailing zero bits
normalize(m, e) ==
    LET ones == {i \in 1..Len(m) : m[i] = 1}
    IN  IF ones = {} THEN Zero
        ELSE LET first == CHOOSE i \in ones : \A j \in ones : i <= j
                 last == CHOOSE i \in ones : \A j \in ones : i >= j
             IN  Number(SubSeq(m, first, last), e + (Len(m) - last))

\* the carry into position i of the sum of two rows of n bits: a lower
\* position holds two ones and every position in between holds one
carryInto(x, y, i) ==
    IF \E j \in (i + 1)..Len(x) :
            /\ x[j] + y[j] = 2
            /\ \A k \in (i + 1)..(j - 1) : x[k] + y[k] = 1
    THEN 1 ELSE 0

\* the bits of the sum of two naturals
addBits(x, y) ==
    LET n == IF Len(x) > Len(y) THEN Len(x) ELSE Len(y)
        a == zeros(n - Len(x)) \o x
        b == zeros(n - Len(y)) \o y
    IN  << carryInto(a, b, 0) >> \o [i \in 1..n |-> (a[i] + b[i] + carryInto(a, b, i)) % 2]

RECURSIVE mulFrom(_, _, _)
mulFrom(x, y, i) ==
    IF i = 0 THEN << >>
    ELSE LET acc == mulFrom(x, y, i - 1) \o << 0 >>
         IN  IF y[i] = 1 THEN addBits(acc, x) ELSE acc

\* the bits of the product of two naturals
mulBits(x, y) == mulFrom(x, y, Len(y))

\* round to nearest, ties to even, the exact value m * 2^e
roundToDouble(m, e) ==
    LET exact == normalize(m, e)
        dropped == Len(exact.m) - SignificandBits
    IN  IF dropped <= 0 THEN exact
        ELSE LET kept == SubSeq(exact.m, 1, SignificandBits)
                 \* the last bit of exact.m is 1: one dropped bit is a tie
                 roundUp == IF dropped = 1
                            THEN kept[SignificandBits] = 1
                            ELSE exact.m[SignificandBits + 1] = 1
             IN  normalize(IF roundUp THEN addBits(kept, << 1 >>) ELSE kept,
                           exact.e + dropped)

\* a + b on Numbers
numberAdd(a, b) ==
    IF a.nan \/ b.nan THEN NaN
    ELSE LET e == IF a.e < b.e THEN a.e ELSE b.e
         IN  roundToDouble(addBits(a.m \o zeros(a.e - e), b.m \o zeros(b.e - e)), e)

\* a * b on Numbers
numberMultiply(a, b) ==
    IF a.nan \/ b.nan THEN NaN
    ELSE roundToDouble(mulBits(a.m, b.m), a.e + b.e)

RECURSIVE natBits(_)
natBits(n) == IF n = 0 THEN << >> ELSE Append(natBits(n \div 2), n % 2)

\* the Number of a natural
toNumber(n) == normalize(natBits(n), 0)

digitValue(c) ==
    ("0" :> 0 @@ "1" :> 1 @@ "2" :> 2 @@ "3" :> 3 @@ "4" :> 4 @@
     "5" :> 5 @@ "6" :> 6 @@ "7" :> 7 @@ "8" :> 8 @@ "9" :> 9)[c]

\* the length of the run of digits of s that starts at position i
RECURSIVE digitRun(_, _)
digitRun(s, i) == IF i <= Len(s) /\ IsDigit(s[i]) THEN 1 + digitRun(s, i + 1) ELSE 0

RECURSIVE digitsValue(_)
digitsValue(s) ==
    IF s = << >> THEN 0
    ELSE 10 * digitsValue(SubSeq(s, 1, Len(s) - 1)) + digitValue(s[Len(s)])

RECURSIVE powerOfTen(_)
powerOfTen(k) == IF k = 0 THEN 1 ELSE 10 * powerOfTen(k - 1)

\* the bits of r / d after the binary point, r < d, up to two bits beyond
\* the significand and a last bit 1 that stands for a rest that is not zero
RECURSIVE fractionBits(_, _, _)
fractionBits(r, d, significant) ==
    IF r = 0 THEN << >>
    ELSE IF significant >= SignificandBits + 2 THEN << 1 >>
    ELSE LET bit == IF 2 * r >= d THEN 1 ELSE 0
         IN  << bit >> \o fractionBits(2 * r - bit * d, d,
                              IF significant > 0 \/ bit = 1 THEN significant + 1 ELSE 0)

\* the double nearest to n / d
nearestDouble(n, d) ==
    LET whole == natBits(n \div d)
        fraction == fractionBits(n % d, d, Len(whole))
    IN  roundToDouble(whole \o fraction, 0 - Len(fraction))

\* parseFloat(value): ToString, leading white space skipped, then the longest
\* prefix that is a decimal literal: digits, "." and digits. The texts of the
\* model hold no sign, no exponent part and no "Infinity".
parseFloat(value) ==
         LET blanks == {i \in 1..Len(value) : \A j \in 1..i : IsWhiteSpace(value[j])}
             start == Cardinality(blanks) + 1
             whole == digitRun(value, start)
             dot == start + whole
             fraction == IF dot <= Len(value) /\ value[dot] = "."
                         THEN digitRun(value, dot + 1) ELSE 0
             digits == SubSeq(value, start, dot - 1)
                            \o SubSeq(value, dot + 1, dot + fraction)
         IN  IF whole + fraction = 0 THEN NaN
             ELSE nearestDouble(digitsValue(digits), powerOfTen(fraction))

\* parseFloat(product.final_price); a product without the property gives
\* parseFloat(undefined), which is NaN
finalPriceOf(product) ==
    IF "final_price" \in DOMAIN product THEN parseFloat(product.final_price) ELSE NaN

\* product.quantity as the multiplication reads it: a JSON number, or
\* undefined, which ToNumber turns into NaN
quantityOf(product) ==
    IF "quantity" \in DOMAIN product THEN toNumber(product.quantity) ELSE NaN

\* products.reduce((sum, product) => sum + (parseFloat(product.final_price) * product.quantity), 0)
RECURSIVE reduce(_, _)
reduce(items, n) ==
    IF n = 0 THEN Zero
    ELSE numberAdd(reduce(items, n - 1),
                   numberMultiply(finalPriceOf(items[n]), quantityOf(items[n])))

\* if (!products || !Array.isArray(products)) return 0;
calculateOrderAmount(p) ==
    IF p.kind # "array" THEN Zero ELSE reduce(p.items, Len(p.items))

-----------------------------------------------------------------------------
(* Looking up one order: orderApi.getOrderById as the OrderDetails page    *)
(* calls it, and orderApi.getOrderDetails as the useOrderDetails hook does *)

\* new Error(message), or a TypeError: neither response nor request
Error(message) == [response |-> FALSE, request |-> FALSE, status |-> 0, message |-> message]

TypeError == Error("Cannot read properties of undefined (reading 'toString')")

\* a GET: the id is part of the path of the direct endpoint and the
\* order_id parameter of the listing endpoints
axiosGet(path, inPath, orderIdParam) == [path |-> path, id |-> inPath, order_id |-> orderIdParam]

\* const endpoints = [`/orders/get-all-orders`, `/orders`]
endpoints == << "/orders/get-all-orders", "/orders" >>

\* order.order_id.toString() === orderId.toString() || order.order_serial === orderId.toString()
matches(o, orderId) ==
    \/ numberToString(o["order_id"]) = orderId
    \/ ("order_serial" \in DOMAIN o /\ o["order_serial"] = orderId)

\* Array.prototype.find with that test: the first match, none, or the
\* TypeError of an entry without order_id met before a match
RECURSIVE findFrom(_, _, _)
findFrom(list, i, orderId) ==
    IF i > Len(list) THEN [threw |-> FALSE, found |-> << >>]
    ELSE IF "order_id" \notin DOMAIN list[i] THEN [threw |-> TRUE, found |-> << >>]
    ELSE IF matches(list[i], orderId) THEN [threw |-> FALSE, found |-> << list[i] >>]
    ELSE findFrom(list, i + 1, orderId)

\* response.data of a 2xx answer: an object that is one order, an array of
\* orders, an object holding the array as its orders, a text, or nothing
Body(kind, items) == [kind |-> kind, orders |-> items]

Lookup(fn, orderId, tried, awaiting, error, returned, thrown, toasts) ==
    [fn |-> fn, orderId |-> orderId, tried |-> tried, awaiting |-> awaiting,
     error |-> error, returned |-> returned, thrown |-> thrown, toasts |-> toasts]

NoLookup == Lookup("none", "", << >>, FALSE, << >>, << >>, << >>, << >>)

\* the text getOrderById and getOrderDetails show for what they caught
couldNotRetrieve(fn, error) ==
    IF error.response
    THEN Toast("error", "Could not retrieve order details. Server responded with", error.status)
    ELSE IF error.request
    THEN Toast("error",
               IF fn = "getOrderById"
               THEN "Could not retrieve order details. No response received from server. Check network connection or CORS settings."
               ELSE "Could not retrieve order details. No response received from server.",
               <<>>)
    ELSE Toast("error", "Could not retrieve order details. ", error.message)

\* the catch of fetchOrderDetails: setError(errorMsg); toast.error(errorMsg)
errorMsg(err) ==
    IF err.response
    THEN Toast("error", "API Error (): Failed to fetch order details", err.status)
    ELSE IF err.request
    THEN Toast("error", "No response received from server", <<>>)
    ELSE Toast("error", "errorMsg", err.message)

\* the state of the OrderDetails page
Totals(subtotal, shippingFee, total) ==
    [subtotal |-> subtotal, shippingFee |-> shippingFee, total |-> total]

PageState(o, loading, error, calculatedTotals) ==
    [order |-> o, isLoading |-> loading, error |-> error, calculatedTotals |-> calculatedTotals]

\* useState(null), useState(true), useState(null), useState({ subtotal: 0, ... })
InitialDetails == PageState(<< >>, TRUE, << >>, Totals(Zero, Zero, Zero))

\* !object[key] for a member that, where present, is a number
falsyNumber(object, key) == key \notin DOMAIN object \/ object[key] = 0

\* object[key] as an operand of * and +: undefined becomes NaN
numberOf(object, key) == IF key \in DOMAIN object THEN toNumber(object[key]) ELSE NaN

\* Array.isArray(data.products) ? data.products.map(product => ({ ...product, ... })) : []
productsOf(data) ==
    IF "products" \in DOMAIN data /\ data.products.kind = "array"
    THEN [i \in 1..Len(data.products.items) |-> data.products.items[i]]
    ELSE << >>

\* const processedOrder = { ...data, order_id: data.order_id, order_serial: ..., products: ... }
processedOrder(data, orderId) ==
    [order_id |-> IF "order_id" \in DOMAIN data THEN << data.order_id >> ELSE << >>,
     order_serial |-> IF "order_serial" \in DOMAIN data /\ data.order_serial # ""
                      THEN data.order_serial ELSE orderId,
     shipping_cost |-> IF "shipping_cost" \in DOMAIN data THEN << data.shipping_cost >> ELSE << >>,
     products |-> productsOf(data)]

\* orderData.products.reduce((sum, item) => sum + (item.quantity * item.price), 0)
RECURSIVE subtotalOf(_, _)
subtotalOf(items, n) ==
    IF n = 0 THEN Zero
    ELSE numberAdd(subtotalOf(items, n - 1),
                   numberMultiply(numberOf(items[n], "quantity"), numberOf(items[n], "price")))

calculateOrderTotals_mut(orderData) ==
    LET subtotal == subtotalOf(orderData.products, Len(orderData.products))
        shippingFee == IF orderData.shipping_cost = << >> \/ orderData.shipping_cost = << 0 >>
                       THEN Zero ELSE toNumber(orderData.shipping_cost[1])
    IN  Totals(subtotal, shippingFee, numberAdd(subtotal, shippingFee))

\* the totals calculateOrderTotals sets: zero for an order without products
calculateOrderTotals(orderData) ==
    IF Len(orderData.products) = 0 THEN Totals(Zero, Zero, Zero)
    ELSE LET subtotal == subtotalOf(orderData.products, Len(orderData.products))
             shippingFee == IF orderData.shipping_cost = << >> \/ orderData.shipping_cost = << 0 >>
                            THEN Zero ELSE toNumber(orderData.shipping_cost[1])
         IN  Totals(subtotal, shippingFee, numberAdd(subtotal, shippingFee))

\* OrderDetails.fetchOrderDetails up to the await in getOrderById
fetchOrderDetails(orderId) ==
    /\ ~lookup.awaiting
    /\ orderId # ""
    /\ lookup' = Lookup("getOrderById", orderId,
                        << axiosGet("/orders/order/", orderId, "") >>,
                        TRUE, << >>, << >>, << >>, << >>)
    /\ details' = [details EXCEPT !.isLoading = TRUE]
    /\ UNCHANGED << order, display, products, amount, hookVars, failureVars, pageVars, listingVars, uploadVars, sessionVars >>

\* a 2xx answer of /orders/order/{id}: getOrderById returns the body unless
\* it is falsy or not an object, and then throws to its own catch, which
\* shows a toast and throws to the catch of fetchOrderDetails
directAnswers(data) ==
    /\ lookup.awaiting
    /\ lookup.fn = "getOrderById"
    /\ IF data.kind \in { "nothing", "text" }
       THEN LET error == Error("API returned invalid data format")
            IN  lookup' = [lookup EXCEPT
                    !.awaiting = FALSE,
                    !.thrown = << error >>,
                    !.toasts = << couldNotRetrieve("getOrderById", error), errorMsg(error) >>]
       ELSE lookup' = [lookup EXCEPT !.awaiting = FALSE, !.returned = << data >>]
    /\ details' =
        IF data.kind \in { "nothing", "text" }
        THEN [details EXCEPT !.error = << "API returned invalid data format" >>,
                             !.isLoading = FALSE]
        ELSE LET processed == processedOrder(data.orders[1], lookup.orderId)
             IN  [details EXCEPT
                    !.order = << processed >>,
                    !.calculatedTotals =
                        IF falsyNumber(data.orders[1], "total")
                                \/ falsyNumber(data.orders[1], "subtotal")
                        THEN calculateOrderTotals(processed) ELSE @,
                    !.isLoading = FALSE]
    /\ UNCHANGED << order, display, products, amount, hookVars, failureVars, pageVars, listingVars, uploadVars, sessionVars >>

\* /orders/order/{id} fails: the rejection handler of orderApiClient runs,
\* then the catch of getOrderById, which shows a toast and throws again,
\* then the catch of fetchOrderDetails. No other endpoint is asked.
directFails(error) ==
    /\ lookup.awaiting
    /\ lookup.fn = "getOrderById"
    /\ LET handlers == responseInterceptors["orderApiClient"]
           env == runRejected(handlers, Len(handlers), error, Env(localStorage, pathname))
       IN  /\ localStorage' = env.localStorage
           /\ lookup' = [lookup EXCEPT
                    !.awaiting = FALSE,
                    !.thrown = << error >>,
                    !.toasts = env.toasts \o
                               << couldNotRetrieve("getOrderById", error), errorMsg(error) >>]
           /\ IF env.href # Undefined
              THEN /\ pathname' = env.href
                   /\ requests' = << >>
                   /\ user' = IF present(env.localStorage["user"])
                              THEN JSONparse(env.localStorage["user"]) ELSE Null
              ELSE UNCHANGED << pathname, user, requests >>
    /\ details' = [details EXCEPT !.error = << errorMsg(error).text >>, !.isLoading = FALSE]
    /\ UNCHANGED << settled, order, display, products, amount, hookVars, failureVars, pageVars, listingVars, uploadVars >>

\* getOrderDetails up to the await of its first endpoint
getOrderDetails(orderId) ==
    /\ ~lookup.awaiting
    /\ orderId # ""
    /\ lookup' = Lookup("getOrderDetails", orderId,
                        << axiosGet(endpoints[1], "", orderId) >>,
                        TRUE, << >>, << >>, << >>, << >>)
    /\ UNCHANGED << order, display, products, amount, hookVars, failureVars, pageVars, detailVars, listingVars, uploadVars, sessionVars >>

\* getOrderDetails goes on after the endpoint it awaited: the next endpoint,
\* or after the last one `throw error || new Error(...)` to its outer
\* catch, which shows a toast and throws again
nextEndpoint(caught) ==
    LET n == Len(lookup.tried)
    IN  IF n < Len(endpoints)
        THEN [lookup EXCEPT
                !.error = caught,
                !.tried = Append(@, axiosGet(endpoints[n + 1], "", lookup.orderId))]
        ELSE LET error == IF caught # << >> THEN caught[1]
                          ELSE Error("Failed to fetch order details after trying all endpoints")
             IN  [lookup EXCEPT
                    !.awaiting = FALSE,
                    !.error = caught,
                    !.thrown = << error >>,
                    !.toasts = << couldNotRetrieve("getOrderDetails", error) >>]

\* a 2xx answer of a listing endpoint
endpointAnswers(data) ==
    /\ lookup.awaiting
    /\ lookup.fn = "getOrderDetails"
    /\ lookup' =
        IF data.kind \in { "orders", "array" }
        THEN LET sought == findFrom(data.orders, 1, lookup.orderId)
             IN  IF sought.threw THEN nextEndpoint(<< TypeError >>)
                 ELSE IF sought.found # << >>
                 THEN [lookup EXCEPT !.awaiting = FALSE,
                                     !.returned = << Body("object", sought.found) >>]
                 ELSE nextEndpoint(lookup.error)
        ELSE IF data.kind = "object" /\ "order_id" \in DOMAIN data.orders[1]
        THEN [lookup EXCEPT !.awaiting = FALSE, !.returned = << data >>]
        ELSE nextEndpoint(lookup.error)
    /\ UNCHANGED << order, display, products, amount, hookVars, failureVars, pageVars, detailVars, listingVars, uploadVars, sessionVars >>

\* a listing endpoint fails: the inner catch keeps the error and the loop
\* goes on (axios itself is called, no client and no interceptor)
endpointFails(error) ==
    /\ lookup.awaiting
    /\ lookup.fn = "getOrderDetails"
    /\ lookup' = nextEndpoint(<< error >>)
    /\ UNCHANGED << order, display, products, amount, hookVars, failureVars, pageVars, detailVars, listingVars, uploadVars, sessionVars >>

-----------------------------------------------------------------------------
(* A row of the orders table                                               *)

\* renderOrderRow: const { status, variant } = getDisplayStatus(order)
renderOrderRow ==
    /\ amount' = << calculateOrderAmount(products) >>
    /\ display' = << getDisplayStatus(order) >>
    /\ UNCHANGED << order, products, lookup, hookVars, failureVars, pageVars, detailVars, listingVars, uploadVars, sessionVars >>

\* status codes of the orders rendered: known codes of each family, codes of
\* another family, codes the table does not hold, and absent codes
OrderCodes ==
    [status : {Undefined, "OC", "OS", "OB", "XX", "valueOf"},
     status_payment : {Undefined, "PU", "PD"},
     status_return : {Undefined, "", "RN", "RR", "XX", "constructor"},
     status_dispute : {Undefined, "DN", "DP", "XX"},
     status_shipping : {Undefined, "SS", "XX", "toString"}]

-----------------------------------------------------------------------------
(* The WalletCard of the dashboard                                         *)

\* const MOCK_BALANCE = 370001.00
MOCK_BALANCE == toNumber(370001)

\* a JSON string and a JSON number
JsonText(chars) == [kind |-> "string", chars |-> chars]
JsonNumber(number) == [kind |-> "number", number |-> number]

\* truthiness of a JSON string or number
truthyJson(value) ==
    IF value.kind = "string" THEN Len(value.chars) > 0
    ELSE ~value.number.nan /\ value.number # Zero

\* parseFloat(value): a number is converted to its text first, and the text
\* of a finite double parses to that double
parseFloatJson(value) ==
    IF value.kind = "string" THEN parseFloat(value.chars) ELSE value.number

\* the useState values of the WalletCard, and what it waits for
InitialCard ==
    [walletBalance |-> Zero, isLoading |-> TRUE, error |-> << >>,
     pending |-> "/get-customer-balance", answeredBy |-> "none", received |-> << >>,
     toasts |-> << >>]

\* loadBalance after its await, getWalletBalance returned balanceData (<< >>
\* is a null body): the three branches, setError(null), finally
loadBalance(balanceData) ==
    [card EXCEPT
        !.walletBalance =
            IF /\ balanceData # << >>
               /\ "currencies_balance" \in DOMAIN balanceData[1]
               /\ truthyJson(balanceData[1].currencies_balance)
            THEN parseFloatJson(balanceData[1].currencies_balance)
            ELSE IF /\ balanceData # << >>
                    /\ "balance" \in DOMAIN balanceData[1]
                    /\ truthyJson(balanceData[1].balance)
            THEN balanceData[1].balance.number
            ELSE MOCK_BALANCE,
        !.error = << >>,
        !.isLoading = FALSE,
        !.pending = "none",
        !.answeredBy = card.pending,
        !.received = balanceData]

outsideCard == << order, display, products, amount, lookup, hookVars, failureVars,
                  detailVars, listingVars, uploadVars, sessionVars, registration, walletVars >>

\* billApi.getWalletBalance: userApi.get('/get-customer-balance') answered 2xx
customerBalanceAnswers(balanceData) ==
    /\ card.pending = "/get-customer-balance"
    /\ card' = loadBalance(balanceData)
    /\ UNCHANGED outsideCard

\* /get-customer-balance failed: the inner catch falls back to
\* billApiClient.get('/wallet/balance')
customerBalanceFails ==
    /\ card.pending = "/get-customer-balance"
    /\ card' = [card EXCEPT !.pending = "/wallet/balance"]
    /\ UNCHANGED outsideCard

\* /wallet/balance answered 2xx
walletBalanceAnswers(balanceData) ==
    /\ card.pending = "/wallet/balance"
    /\ card' = loadBalance(balanceData)
    /\ UNCHANGED outsideCard

\* /wallet/balance failed too: getWalletBalance throws, the catch of
\* loadBalance sets the error and the mock balance, then finally
walletBalanceFails(error) ==
    /\ card.pending = "/wallet/balance"
    /\ card' = [card EXCEPT !.error = << error.message >>,
                            !.walletBalance = MOCK_BALANCE,
                            !.toasts = << Toast("error", "Could not fetch wallet balance. Using default value.", <<>>) >>,
                            !.isLoading = FALSE,
                            !.pending = "none"]
    /\ UNCHANGED outsideCard

\* the dashboard is left and opened again: a new WalletCard is mounted
mountWalletCard ==
    /\ card.pending = "none"
    /\ card' = InitialCard
    /\ UNCHANGED outsideCard

-----------------------------------------------------------------------------
(* The Wallet page: balance, billing history, autopay and recharge        *)

\* const pageSize = 10 of the Wallet component
walletPageSize == 10

\* BILL_TYPES[bill.bill_debitload_type] || 'Transaction'
BILL_TYPES(type) ==
    CASE type = 0 -> "Payment"
      [] type = 1 -> "Recharge"
      [] type = 2 -> "Withdrawal"
      [] type = 3 -> "Refund"
      [] OTHER -> "Transaction"

\* a bill as GET /bills/ returns it. The sums and balances of the model are
\* whole numbers; order_id 0 is a bill without order (null).
Bill(id, type, sum, orderId, before, after) ==
    [bill_id |-> id, bill_debitload_type |-> type, bill_sum |-> sum, order_id |-> orderId,
     bill_balance_before |-> before, bill_balance_after |-> after]

\* Math.abs
abs(n) == IF n < 0 THEN 0 - n ELSE n

\* let sign = '+'; if ... else if ... in the map callback of fetchTransactions
signOf(bill) ==
    IF bill.order_id # 0 /\ bill.bill_debitload_type = 0 THEN "-"
    ELSE IF bill.bill_sum < 0 THEN "-"
    ELSE IF bill.bill_debitload_type = 1 \/ bill.bill_debitload_type = 3 THEN "+"
    ELSE IF bill.bill_debitload_type = 0 \/ bill.bill_debitload_type = 2 THEN "-"
    ELSE "+"

\* let displayType = type; if (bill.order_id) { ... }
displayTypeOf(bill) ==
    IF bill.order_id # 0
    THEN IF bill.bill_sum < 0 THEN "Order Payment" ELSE "Order Refund"
    ELSE BILL_TYPES(bill.bill_debitload_type)

\* the transaction the map callback returns for a bill; amount is the sign
\* followed by the formatted magnitude, or N/A
transactionOf(bill) ==
    [id |-> bill.bill_id,
     type |-> displayTypeOf(bill),
     amount |-> IF bill.bill_sum # 0 THEN << signOf(bill), abs(bill.bill_sum) >> ELSE << "N/A" >>,
     balance |-> IF bill.bill_balance_after # 0 THEN << bill.bill_balance_after >> ELSE << "N/A" >>,
     transaction_type |-> IF signOf(bill) = "+" THEN "add" ELSE "subtract"]

\* the predicate of bills.filter for a tab
shownIn(bill, tab) ==
    CASE tab = "all" -> TRUE
      [] tab = "recharges" -> bill.bill_debitload_type = 1
      [] tab = "payments" -> \/ bill.bill_debitload_type = 0
                             \/ bill.bill_sum < 0 /\ bill.order_id # 0
      [] tab = "refunds" -> bill.bill_debitload_type = 3
      [] OTHER -> TRUE

filterBills(bills, tab) ==
    LET keep(bill) == shownIn(bill, tab)
    IN  SelectSeq(bills, keep)

\* Math.ceil(total / pageSize) || 1
totalPagesOf(total) ==
    LET calculatedTotalPages == (total + walletPageSize - 1) \div walletPageSize
    IN  IF calculatedTotalPages = 0 THEN 1 ELSE calculatedTotalPages

\* Array.prototype.slice(start, end) for 0 <= start <= end
slice(array, start, end) ==
    IF start >= Len(array) THEN << >>
    ELSE SubSeq(array, start + 1, IF end < Len(array) THEN end ELSE Len(array))

\* the transactions fetchTransactions(tab, page) makes of the bills
transactionsOf(bills, tab, pageNumber) ==
    LET paginatedBills == slice(filterBills(bills, tab), (pageNumber - 1) * walletPageSize,
                                (pageNumber - 1) * walletPageSize + walletPageSize)
    IN  [k \in 1..Len(paginatedBills) |-> transactionOf(paginatedBills[k])]

\* the useState values of the Wallet component
InitialWallet ==
    [walletBalance |-> 0, isLoading |-> TRUE, transactions |-> << >>, selectedTab |-> "all",
     autopayEnabled |-> TRUE, rechargeDialogOpen |-> FALSE, rechargeAmount |-> << >>,
     currentPage |-> 1, totalPages |-> 1]

\* the calls of the Wallet page that await an answer, with what their
\* continuations hold in their closures
BalanceCall == [api |-> "getAllBills", caller |-> "fetchWalletBalance"]
TransactionsCall(tab, pageNumber) ==
    [api |-> "getAllBills", caller |-> "fetchTransactions", tab |-> tab, page |-> pageNumber]
RechargeCall(billData, tab, pageNumber) ==
    [api |-> "createBill", caller |-> "handleRechargeWallet", billData |-> billData,
     tab |-> tab, page |-> pageNumber]
AutopayCall(enabled) ==
    [api |-> "updateAutopay", caller |-> "handleAutopayToggle", enabled |-> enabled,
     accepted |-> FALSE]

\* the bill service: the bills, newest first, the recharges it accepted from
\* this page in the order of acceptance, and the autopay update it accepted
\* last
BillService(bills) == [bills |-> bills, posted |-> << >>, autopay |-> << >>]

\* what a step of the Wallet page leaves alone
outsideWallet == << order, display, products, amount, lookup, hookVars, failureVars,
                    detailVars, listingVars, uploadVars, sessionVars, registration, card >>

\* billApi.getAllBills answered 2xx: fetchWalletBalance or fetchTransactions
\* after its await, then finally
getAllBillsResolves(i) ==
    /\ i \in 1..Len(walletCalls)
    /\ walletCalls[i].api = "getAllBills"
    /\ LET call == walletCalls[i]
           bills == billService.bills
       IN  wallet' =
             IF call.caller = "fetchWalletBalance"
             THEN [wallet EXCEPT !.walletBalance =
                                    IF Len(bills) > 0 THEN bills[1].bill_balance_after ELSE 0,
                                 !.isLoading = FALSE]
             ELSE [wallet EXCEPT !.totalPages = totalPagesOf(Len(filterBills(bills, call.tab))),
                                 !.transactions = transactionsOf(bills, call.tab, call.page),
                                 !.isLoading = FALSE]
    /\ walletCalls' = removeAt(walletCalls, i)
    /\ UNCHANGED << billService, outsideWallet >>

\* billApi.getAllBills failed: the catch of the caller, then finally
getAllBillsRejects(i) ==
    /\ i \in 1..Len(walletCalls)
    /\ walletCalls[i].api = "getAllBills"
    /\ wallet' =
         IF walletCalls[i].caller = "fetchWalletBalance"
         THEN [wallet EXCEPT !.walletBalance = 0, !.isLoading = FALSE]
         ELSE [wallet EXCEPT !.transactions = << >>, !.totalPages = 1, !.isLoading = FALSE]
    /\ walletCalls' = removeAt(walletCalls, i)
    /\ UNCHANGED << billService, outsideWallet >>

\* Tabs onValueChange={handleTabChange}
handleTabChange(tab) ==
    /\ Len(walletCalls) < MaxCalls
    /\ wallet' = [wallet EXCEPT !.selectedTab = tab, !.currentPage = 1, !.isLoading = TRUE]
    /\ walletCalls' = Append(walletCalls, TransactionsCall(tab, 1))
    /\ UNCHANGED << billService, outsideWallet >>

\* Previous and Next: shown while transactions.length > 0, disabled at the
\* first and at the last page; handlePageChange(newPage)
handlePageChange(newPage) ==
    /\ Len(walletCalls) < MaxCalls
    /\ Len(wallet.transactions) > 0
    /\ \/ newPage = wallet.currentPage - 1 /\ ~(wallet.currentPage <= 1)
       \/ newPage = wallet.currentPage + 1 /\ ~(wallet.currentPage >= wallet.totalPages)
    /\ newPage >= 1 /\ newPage <= wallet.totalPages
    /\ wallet' = [wallet EXCEPT !.currentPage = newPage, !.isLoading = TRUE]
    /\ walletCalls' = Append(walletCalls, TransactionsCall(wallet.selectedTab, newPage))
    /\ UNCHANGED << billService, outsideWallet >>

\* Switch onCheckedChange={handleAutopayToggle}, up to its await
handleAutopayToggle(enabled) ==
    /\ Len(walletCalls) < MaxCalls
    /\ enabled = ~wallet.autopayEnabled
    /\ wallet' = [wallet EXCEPT !.isLoading = TRUE, !.autopayEnabled = enabled]
    /\ walletCalls' = Append(walletCalls, AutopayCall(enabled))
    /\ UNCHANGED << billService, outsideWallet >>

\* the service receives POST /update-autopay and accepts the update
updateAutopayAccepted(i) ==
    /\ i \in 1..Len(walletCalls)
    /\ walletCalls[i].api = "updateAutopay"
    /\ ~walletCalls[i].accepted
    /\ billService' = [billService EXCEPT !.autopay = << walletCalls[i].enabled >>]
    /\ walletCalls' = [walletCalls EXCEPT ![i].accepted = TRUE]
    /\ UNCHANGED << wallet, outsideWallet >>

\* the 2xx answer of an accepted update arrives: finally
updateAutopayResolves(i) ==
    /\ i \in 1..Len(walletCalls)
    /\ walletCalls[i].api = "updateAutopay"
    /\ walletCalls[i].accepted
    /\ wallet' = [wallet EXCEPT !.isLoading = FALSE]
    /\ walletCalls' = removeAt(walletCalls, i)
    /\ UNCHANGED << billService, outsideWallet >>

\* POST /update-autopay failed, the service has not accepted the update:
\* catch (setAutopayEnabled(!enabled)), finally
updateAutopayRejects(i) ==
    /\ i \in 1..Len(walletCalls)
    /\ walletCalls[i].api = "updateAutopay"
    /\ ~walletCalls[i].accepted
    /\ wallet' = [wallet EXCEPT !.autopayEnabled = ~walletCalls[i].enabled, !.isLoading = FALSE]
    /\ walletCalls' = removeAt(walletCalls, i)
    /\ UNCHANGED << billService, outsideWallet >>

\* <Button onClick={() => setRechargeDialogOpen(true)}>
openRechargeDialog ==
    /\ ~wallet.rechargeDialogOpen
    /\ wallet' = [wallet EXCEPT !.rechargeDialogOpen = TRUE]
    /\ UNCHANGED << walletCalls, billService, outsideWallet >>

\* the amount Input's onChange; the text of a number is << number >>, the
\* empty text << >>
onAmountChange(amountText) ==
    /\ wallet.rechargeDialogOpen
    /\ amountText # wallet.rechargeAmount
    /\ wallet' = [wallet EXCEPT !.rechargeAmount = amountText]
    /\ UNCHANGED << walletCalls, billService, outsideWallet >>

\* Recharge (disabled while isLoading || !rechargeAmount): handleRechargeWallet
\* up to its await; an amount that is not positive is refused with a toast
handleRechargeWallet ==
    /\ wallet.rechargeDialogOpen
    /\ ~wallet.isLoading
    /\ wallet.rechargeAmount # << >>
    /\ wallet.rechargeAmount[1] > 0
    /\ Len(walletCalls) + 1 < MaxCalls
    /\ Len(billService.posted) + Cardinality({i \in 1..Len(walletCalls) : walletCalls[i].api = "createBill"})
            < MaxRecharges
    /\ LET rechargeValue == wallet.rechargeAmount[1]
           billData == Bill(0, 1, rechargeValue, 0, wallet.walletBalance,
                            wallet.walletBalance + rechargeValue)
       IN  walletCalls' = Append(walletCalls,
                                 RechargeCall(billData, wallet.selectedTab, wallet.currentPage))
    /\ wallet' = [wallet EXCEPT !.isLoading = TRUE]
    /\ UNCHANGED << billService, outsideWallet >>

\* POST /bills/ answered 2xx: the service has stored the bill as posted;
\* the dialog closes, fetchWalletBalance() and fetchTransactions(selectedTab,
\* currentPage) reach their awaits, then finally
createBillResolves(i) ==
    /\ i \in 1..Len(walletCalls)
    /\ walletCalls[i].api = "createBill"
    /\ LET call == walletCalls[i]
           stored == [call.billData EXCEPT !.bill_id = Len(billService.bills) + 1]
       IN  /\ billService' = [billService EXCEPT !.bills = << stored >> \o @,
                                                 !.posted = Append(@, stored)]
           /\ walletCalls' = removeAt(walletCalls, i)
                                \o << BalanceCall, TransactionsCall(call.tab, call.page) >>
    /\ wallet' = [wallet EXCEPT !.rechargeDialogOpen = FALSE, !.rechargeAmount = << >>,
                                !.isLoading = FALSE]
    /\ UNCHANGED outsideWallet

\* POST /bills/ failed: catch, then finally
createBillRejects(i) ==
    /\ i \in 1..Len(walletCalls)
    /\ walletCalls[i].api = "createBill"
    /\ wallet' = [wallet EXCEPT !.isLoading = FALSE]
    /\ walletCalls' = removeAt(walletCalls, i)
    /\ UNCHANGED << billService, outsideWallet >>

\* the bills of the customer when the page is opened, newest first: a
\* recharge of 200 and ten order payments of 10
InitialBills ==
    [k \in 1..11 |->
        IF k = 11 THEN Bill(1, 1, 200, 0, 0, 200)
        ELSE Bill(12 - k, 0, 0 - 10, 500 + (12 - k), 200 - 10 * (10 - k), 200 - 10 * (11 - k))]

\* the page as mounted: the effect has called fetchWalletBalance() and
\* fetchTransactions('all', 1)
InitWallet ==
    /\ wallet = InitialWallet
    /\ walletCalls = << BalanceCall, TransactionsCall("all", 1) >>
    /\ billService = BillService(InitialBills)

\* the WalletCard as mounted: the effect has called loadBalance(), which
\* awaits billApi.getWalletBalance(), which awaits /get-customer-balance
InitCard == card = InitialCard

-----------------------------------------------------------------------------
(* The specifications                                                     *)

\* the other pages are not shown
InitOtherPages ==
    /\ registration = << >>
    /\ details = InitialDetails

InitPages ==
    /\ InitOtherPages
    /\ InitWallet
    /\ InitCard

\* order.products as the response carries it
Products(kind, items) == [kind |-> kind, items |-> items]

InitPage ==
    /\ InitSession
    /\ selectedTab = "all"
    /\ searchTerm = ""
    /\ selectedMarketplace = "ALL"
    /\ dateRange = [from |-> "", to |-> ""]
    /\ sortBy = "last_modified"
    /\ orders = << >>
    /\ totalCount = 0
    /\ isLoading = TRUE
    /\ listings = << Listing("all", filtersOf([from |-> "", to |-> ""], "", "ALL", "last_modified")) >>
    /\ selectedFile = NoFile
    /\ isUploading = FALSE
    /\ uploads = << >>

InitTable ==
    /\ order = Undefined
    /\ display = << >>
    /\ products = Products("undefined", << >>)
    /\ amount = << >>
    /\ fetchFailure = << >>
    /\ lookup = NoLookup
    /\ hook = NoHook
    /\ effects = << >>

InitRow ==
    /\ InitTable
    /\ InitPages

\* the files of deskFiles
Desk == 1..Len(deskFiles)

(* Spec: the whole upload flow, the user holding the files of Desk.        *)
Init ==
    /\ InitPage
    /\ InitRow
    /\ uploadDialogOpen = FALSE
    /\ pickable = Desk

Next ==
    \/ OpenUploadDialog
    \/ CloseUploadDialog
    \/ \E f \in FileIds : handleFileChange(f)
    \/ handleUpload
    \/ \E i \in 1..MaxAttempts : fileReaderOnload(i)
    \/ \E i \in 1..MaxAttempts : uploadResolves(i)
    \/ \E i \in 1..MaxAttempts, error \in UploadErrors : uploadRejects(i, error)
    \/ \E i \in 1..(MaxAttempts + 1), response \in ListingResponses : ListingResolves(i, response)
    \/ \E i \in 1..(MaxAttempts + 1), error \in ListingErrors : ListingRejects(i, error)

Spec == Init /\ [][Next]_vars

(* SpecValidate: the handler chain from the click on Upload to the POST,    *)
(* for every file of the catalogue, the dialog open.                       *)
InitValidate ==
    /\ InitPage
    /\ InitRow
    /\ uploadDialogOpen = TRUE
    /\ pickable \in {{f} : f \in FileIds}

NextValidate ==
    \/ \E f \in FileIds : handleFileChange(f)
    \/ handleUpload
    \/ \E i \in 1..MaxAttempts : fileReaderOnload(i)

SpecValidate == InitValidate /\ [][NextValidate]_vars

(* SpecFetch: fetchTabOrders applied to every tab argument and filter.    *)
InitFetch ==
    /\ selectedTab \in TabTriggers \cup OtherTabIds
    /\ searchTerm \in {"", "1001"}
    /\ selectedMarketplace \in {"ALL", "1", "5"}
    /\ dateRange \in {[from |-> "", to |-> ""], [from |-> "2024-01-01", to |-> "2024-01-31"]}
    /\ sortBy \in {"last_modified", "orderid", "pricedesc"}
    /\ orders = << >>
    /\ totalCount = 0
    /\ isLoading = FALSE
    /\ listings = << >>
    /\ uploadDialogOpen = FALSE
    /\ selectedFile = NoFile
    /\ isUploading = FALSE
    /\ uploads = << >>
    /\ pickable = {}
    /\ InitRow
    /\ InitSession

NextFetch ==
    \/ CallFetchTabOrders
    \/ \E i \in 1..MaxInFlight, response \in ListingResponses : ListingResolves(i, response)
    \/ \E i \in 1..MaxInFlight, error \in ListingErrors : ListingRejects(i, error)

SpecFetch == InitFetch /\ [][NextFetch]_vars

(* SpecSession: signing in, calling the API, answers of every kind and    *)
(* signing out, from a signed-in and from a signed-out application.        *)
InitSigned ==
    /\ \/ /\ localStorage = Credentials
          /\ user = "user-1"
          /\ pathname \in { "/", "/orders" }
       \/ /\ localStorage = NoCredentials
          /\ user = Null
          /\ pathname = "/auth/login"
    /\ requests = << >>
    /\ settled = NothingSettled
    /\ selectedTab = "all"
    /\ searchTerm = ""
    /\ selectedMarketplace = "ALL"
    /\ dateRange = [from |-> "", to |-> ""]
    /\ sortBy = "last_modified"
    /\ orders = << >>
    /\ totalCount = 0
    /\ isLoading = FALSE
    /\ listings = << >>
    /\ uploadDialogOpen = FALSE
    /\ selectedFile = NoFile
    /\ isUploading = FALSE
    /\ uploads = << >>
    /\ pickable = {}
    /\ InitRow

NextSession ==
    \/ \E call \in ApiCalls : apiCall(call)
    \/ login
    \/ \E i \in 1..MaxRequests, data \in LoginResponses : requestResolves(i, data)
    \/ \E i \in 1..MaxRequests, error \in ResponseErrors : requestRejects(i, error)
    \/ logout
    \/ \E path \in Routes : navigate(path)

SpecSession == InitSigned /\ [][NextSession]_vars

(* SpecStatus: getDisplayStatus applied to every order of OrderCodes.      *)
InitStatus ==
    /\ order \in OrderCodes
    /\ display = << >>
    /\ products = Products("undefined", << >>)
    /\ amount = << >>
    /\ fetchFailure = << >>
    /\ InitPages
    /\ lookup = NoLookup
    /\ hook = NoHook
    /\ effects = << >>
    /\ selectedTab = "all"
    /\ searchTerm = ""
    /\ selectedMarketplace = "ALL"
    /\ dateRange = [from |-> "", to |-> ""]
    /\ sortBy = "last_modified"
    /\ orders = << >>
    /\ totalCount = 0
    /\ isLoading = FALSE
    /\ listings = << >>
    /\ uploadDialogOpen = FALSE
    /\ selectedFile = NoFile
    /\ isUploading = FALSE
    /\ uploads = << >>
    /\ pickable = {}
    /\ InitSession

NextStatus == renderOrderRow

SpecStatus == InitStatus /\ [][NextStatus]_vars

\* the final_price values of the products rendered: decimal texts (a JSON
\* number reaches parseFloat as its decimal text) and a text without digits
PriceTexts ==
    { << "0", ".", "1" >>, << "0", ".", "2" >>, << "0", ".", "3" >>,
      << "1", "0" >>, << "a", "b", "c" >> }

\* the products rendered: with a price and a quantity, without a price,
\* without a quantity
ProductSet ==
    [final_price : PriceTexts, quantity : {1, 3}]
        \cup { [quantity |-> 1], [final_price |-> << "1", "0" >>] }

RECURSIVE listsUpTo(_)
listsUpTo(n) ==
    IF n = 0 THEN { << >> }
    ELSE LET shorter == listsUpTo(n - 1)
         IN  shorter \cup {Append(l, p) : l \in {s \in shorter : Len(s) = n - 1}, p \in ProductSet}

\* order.products: a list of up to MaxProducts products, or no list
ProductInputs ==
    {Products("array", l) : l \in listsUpTo(MaxProducts)}
        \cup {Products(kind, << >>) : kind \in {"undefined", "null", "object", "string"}}

(* SpecAmount: calculateOrderAmount applied to every value of              *)
(* ProductInputs, for one order.                                           *)
InitAmount ==
    /\ InitPage
    /\ uploadDialogOpen = FALSE
    /\ pickable = {}
    /\ order = [status |-> "OS", status_payment |-> "PD", status_return |-> "RN",
                status_dispute |-> "DN", status_shipping |-> Undefined]
    /\ display = << >>
    /\ products \in ProductInputs
    /\ amount = << >>
    /\ fetchFailure = << >>
    /\ InitPages
    /\ lookup = NoLookup
    /\ hook = NoHook
    /\ effects = << >>

NextAmount == renderOrderRow

SpecAmount == InitAmount /\ [][NextAmount]_vars

(* SpecLookup: both lookups of an order, for the ids of OrderIds and the    *)
(* answers of DirectBodies, ListingBodies and LookupErrors.                 *)
OrderIds == { "7", "A-7" }

Order7 == [order_id |-> 7, order_serial |-> "A-7"]
Order8 == [order_id |-> 8, order_serial |-> "7"]
Order12 == [order_id |-> 12, order_serial |-> "A-12"]
OrderWithoutId == [order_serial |-> "A-7"]

\* the members an order object may or may not have
IdMembers == { [order_serial |-> "A-7"], [order_serial |-> "A-7", order_id |-> 7] }

ProductLists ==
    { Products("array", << >>),
      Products("array", << [quantity |-> 2, price |-> 5] >>),
      Products("array", << [quantity |-> 2, price |-> 5], [quantity |-> 1] >>),
      Products("null", << >>) }

OrderObjects ==
    { id @@ p @@ t @@ c :
        id \in IdMembers,
        p \in { [status |-> "OS"] } \cup { [products |-> list] : list \in ProductLists },
        t \in { [status |-> "OS"], [total |-> 0, subtotal |-> 0], [total |-> 50, subtotal |-> 10] },
        c \in { [status |-> "OS"], [shipping_cost |-> 40] } }

DirectBodies ==
    { Body("object", << o >>) : o \in OrderObjects }
    \cup { Body("text", << >>), Body("nothing", << >>) }

ListingBodies ==
    { Body("orders", << Order8, Order7 >>), Body("orders", << Order12 >>),
      Body("array", << Order12, Order7 >>), Body("array", << OrderWithoutId, Order7 >>),
      Body("array", << >>),
      Body("object", << Order12 >>), Body("object", << OrderWithoutId >>) }

LookupErrors == { NetworkError, HttpError(401), HttpError(404), HttpError(500) }

InitLookup ==
    /\ InitPage
    /\ uploadDialogOpen = FALSE
    /\ pickable = {}
    /\ InitRow

NextLookup ==
    \/ \E orderId \in OrderIds : fetchOrderDetails(orderId)
    \/ \E data \in DirectBodies : directAnswers(data)
    \/ \E error \in LookupErrors : directFails(error)
    \/ \E orderId \in OrderIds : getOrderDetails(orderId)
    \/ \E data \in ListingBodies : endpointAnswers(data)
    \/ \E error \in LookupErrors : endpointFails(error)

SpecLookup == InitLookup /\ [][NextLookup]_vars

(* SpecHook: a component using useApi, from its first effect on.           *)
Deps == { "a", "b" }
UserIds == { Undefined, "1" }
Outcomes == { Resolved("result-1"), Resolved("result-2"),
              Rejected(TRUE, "Request failed"), Rejected(FALSE, "timeout") }

InitHook ==
    /\ InitPage
    /\ uploadDialogOpen = FALSE
    /\ pickable = {}
    /\ order = Undefined
    /\ display = << >>
    /\ products = Products("undefined", << >>)
    /\ amount = << >>
    /\ fetchFailure = << >>
    /\ InitPages
    /\ lookup = NoLookup
    /\ \E skip \in BOOLEAN, dep \in Deps, userId \in UserIds :
            /\ hook = firstRender(skip, dep, userId)
            /\ effects = IF skip THEN << >> ELSE << Awaited("effect", TRUE) >>

NextHook ==
    \/ \E skip \in BOOLEAN, dep \in Deps, userId \in UserIds : rerender(skip, dep, userId)
    \/ unmount
    \/ \E i \in 1..MaxInFlight, outcome \in Outcomes : effectCompletes(i, outcome)
    \/ refetch
    \/ \E i \in 1..MaxInFlight, outcome \in Outcomes : refetchCompletes(i, outcome)

SpecHook == InitHook /\ [][NextHook]_vars

(* SpecFailure: listing requests of the Orders page that fail in every way *)
(* of FailureInputs.                                                       *)
Statuses == { 400, 401, 403, 404, 422, 500, 503 }

Bodies ==
    { << >>,
      Data(Detail("string", << "Invalid date range" >>), << >>),
      Data(Detail("array", << "from_date is invalid", "to_date is invalid" >>), << >>),
      Data(Detail("object", << >>), << >>),
      Data(Detail("absent", << >>), << [key |-> "error", value |-> "Orders unavailable"] >>) }

FailureInputs ==
    { AxiosError("Network Error", << >>), AxiosError("timeout of 30000ms exceeded", << >>) }
    \cup { AxiosError("Request failed with status code " \o numberToString(status),
                      Response(status, data)) : status \in Statuses, data \in Bodies }

InitFailure ==
    /\ InitPage
    /\ uploadDialogOpen = FALSE
    /\ pickable = {}
    /\ InitRow

NextFailure ==
    \/ CallFetchTabOrders
    \/ \E i \in 1..MaxInFlight, error \in FailureInputs : ListingRejects(i, error)

SpecFailure == InitFailure /\ [][NextFailure]_vars

(* SpecRegister: registrations answered with the statuses and bodies of    *)
(* RegisterAnswers.                                                        *)
DetailTexts == { << "Email already registered" >>, << "field required" >> }

\* the entries of a detail list: strings, and objects with and without msg
DetailItems ==
    { JsString(t) : t \in DetailTexts }
    \cup { JsObject(<< Member("loc", JsArray(<< JsString(<< "body" >>), JsString(<< "gstin_code" >>) >>)),
                       Member("msg", JsString(t)) >>) : t \in DetailTexts }
    \cup { JsObject(<< Member("field", JsString(<< "gstin_code" >>)) >>) }

\* the three shapes of detail: a string, an array, a nested object
Details ==
    { JsString(t) : t \in DetailTexts }
    \cup { JsArray(<< a >>) : a \in DetailItems }
    \cup { JsArray(<< a, b >>) : a \in DetailItems, b \in DetailItems }
    \cup { JsObject(<< Member("customer_email_address", JsString(t)) >>) : t \in DetailTexts }
    \cup { JsObject(<< Member("errors",
                              JsObject(<< Member("customer_email_address", JsString(t)) >>)) >>) :
                t \in DetailTexts }

RegisterBodies ==
    { JsObject(<< Member("detail", d) >>) : d \in Details }
    \cup { JsObject(<< Member("customer_email_address", JsString(<< "already registered" >>)) >>),
           JsString(<< "Unprocessable Entity" >>), JsString(<< >>) }

RegisterAnswers ==
    { Answer(422, "Unprocessable Entity", data) : data \in RegisterBodies }
    \cup { Answer(400, "Bad Request", data) : data \in RegisterBodies }
    \cup { Answer(500, "Internal Server Error", data) : data \in RegisterBodies }

InitRegister ==
    /\ InitPage
    /\ uploadDialogOpen = FALSE
    /\ pickable = {}
    /\ InitRow

NextRegister ==
    \/ \E answer \in RegisterAnswers : registerRejected(answer)
    \/ registerAgain

SpecRegister == InitRegister /\ [][NextRegister]_vars

(* SpecTabs: the Orders page while the tab and the search term change and  *)
(* the listing requests complete in any order.                             *)
SearchTerms == {"", "1001"}

InitTabs == InitPage /\ uploadDialogOpen = FALSE /\ pickable = {} /\ InitRow

NextTabs ==
    \/ \E tab \in TabTriggers : onValueChange(tab)
    \/ \E term \in SearchTerms : onSearchChange(term)
    \/ \E i \in 1..MaxInFlight : ListingAnswered(i)

SpecTabs == InitTabs /\ [][NextTabs]_vars

(* SpecRecharge: the Wallet page while the user recharges the wallet and   *)
(* the balance and the history are refreshed.                              *)
RechargeAmounts == { << 50 >>, << 100 >> }

InitWalletPage == InitPage /\ uploadDialogOpen = FALSE /\ pickable = {} /\ InitRow

NextRecharge ==
    \/ openRechargeDialog
    \/ \E amountText \in RechargeAmounts : onAmountChange(amountText)
    \/ handleRechargeWallet
    \/ \E i \in 1..MaxCalls + 1 : createBillResolves(i)
    \/ \E i \in 1..MaxCalls + 1 : createBillRejects(i)
    \/ \E i \in 1..MaxCalls + 1 : getAllBillsResolves(i)
    \/ \E i \in 1..MaxCalls + 1 : getAllBillsRejects(i)

SpecRecharge == InitWalletPage /\ [][NextRecharge]_vars

(* SpecAutopay: the Wallet page while the autopay switch is toggled and    *)
(* the updates are answered in any order.                                  *)
NextAutopay ==
    \/ \E enabled \in BOOLEAN : handleAutopayToggle(enabled)
    \/ \E i \in 1..MaxCalls : updateAutopayAccepted(i)
    \/ \E i \in 1..MaxCalls : updateAutopayResolves(i)
    \/ \E i \in 1..MaxCalls : updateAutopayRejects(i)
    \/ \E i \in 1..MaxCalls : getAllBillsResolves(i)

SpecAutopay == InitWalletPage /\ [][NextAutopay]_vars

(* SpecBills: the billing history of a customer with one bill, for bills   *)
(* of every type, with and without order. A recharge (type 1) and a refund *)
(* (type 3) add to the balance; the other types are stored with a sum of   *)
(* either sign.                                                            *)
LedgerBills ==
    { bill \in { Bill(1, type, sum, orderId, 100 - sum, 100) :
                    type \in 0..4, sum \in {0 - 10, 0, 10}, orderId \in {0, 501} } :
        bill.bill_debitload_type \in {1, 3} => bill.bill_sum >= 0 }

InitBills ==
    /\ InitPage
    /\ uploadDialogOpen = FALSE
    /\ pickable = {}
    /\ InitTable
    /\ InitOtherPages
    /\ InitCard
    /\ wallet = InitialWallet
    /\ walletCalls = << BalanceCall, TransactionsCall("all", 1) >>
    /\ \E bill \in LedgerBills : billService = BillService(<< bill >>)

NextBills ==
    \/ \E i \in 1..MaxCalls : getAllBillsResolves(i)
    \/ \E i \in 1..MaxCalls : getAllBillsRejects(i)

SpecBills == InitBills /\ [][NextBills]_vars

(* SpecPages: the Wallet page under tab changes, page changes, recharges   *)
(* and the completion, successful or failed, of every request.             *)
WalletTabs == {"all", "recharges"}

NextPages ==
    \/ \E tab \in WalletTabs : handleTabChange(tab)
    \/ \E newPage \in 0..3 : handlePageChange(newPage)
    \/ openRechargeDialog
    \/ onAmountChange(<< 50 >>)
    \/ handleRechargeWallet
    \/ \E i \in 1..MaxCalls + 1 : createBillResolves(i)
    \/ \E i \in 1..MaxCalls + 1 : createBillRejects(i)
    \/ \E i \in 1..MaxCalls + 1 : getAllBillsResolves(i)
    \/ \E i \in 1..MaxCalls + 1 : getAllBillsRejects(i)

SpecPages == InitWalletPage /\ [][NextPages]_vars

(* SpecCard: the WalletCard for balances in the new format (a decimal text *)
(* or a number in currencies_balance), in the old format (a number in      *)
(* balance), in both and in neither, from either endpoint.                 *)
Balances ==
    { [text |-> << "0", ".", "0", "0" >>, number |-> Zero],
      [text |-> << "0", ".", "1", "0" >>, number |-> nearestDouble(1, 10)],
      [text |-> << "1", ".", "0", "0" >>, number |-> toNumber(1)],
      [text |-> << "5", ".", "0", "0" >>, number |-> toNumber(5)],
      [text |-> << "1", "2", ".", "2", "5" >>, number |-> nearestDouble(1225, 100)],
      [text |-> << "9", "9", ".", "0", "0" >>, number |-> toNumber(99)],
      [text |-> << "1", "0", "0", "0" >>, number |-> toNumber(1000)],
      [text |-> << "1", "5", "0", ".", "5", "0" >>, number |-> nearestDouble(1505, 10)],
      [text |-> << "2", "5", "0", ".", "0", "0" >>, number |-> toNumber(250)],
      [text |-> << "3", "7", "0", "0", "0", "1", ".", "0", "0" >>, number |-> toNumber(370001)] }

\* a body without either field
NoBalance == [customer_id |-> 1]

BalanceBodies ==
    { << >>, << NoBalance >> }
    \cup { << [currencies_balance |-> c] @@ b >> :
            c \in UNION { { JsonText(v.text), JsonNumber(v.number) } : v \in Balances },
            b \in { NoBalance } \cup { [balance |-> JsonNumber(v.number)] : v \in Balances } }
    \cup { << [balance |-> JsonNumber(v.number)] >> : v \in Balances }

\* the bodies whose fields, where both are there, name the same balance
ConsistentBodies ==
    { body \in BalanceBodies :
        (body # << >> /\ {"currencies_balance", "balance"} \subseteq DOMAIN body[1])
            => parseFloatJson(body[1].currencies_balance) = body[1].balance.number }

NextCard ==
    \/ \E balanceData \in ConsistentBodies : customerBalanceAnswers(balanceData)
    \/ customerBalanceFails
    \/ \E balanceData \in ConsistentBodies : walletBalanceAnswers(balanceData)
    \/ \E error \in ResponseErrors : walletBalanceFails(error)
    \/ mountWalletCard

SpecCard == InitWalletPage /\ [][NextCard]_vars

-----------------------------------------------------------------------------
(* Properties of the upload flow                                           *)

Range(seq) == {seq[i] : i \in 1..Len(seq)}

\* the attempts made so far
Attempts == Range(uploads)

\* the POST /orders/upload of the attempt has been sent
Sent(a) == a.phase \in {"Uploading", "Succeeded", "Failed"}

\* the attempt's handler chain has left the validator
Validated(a) == a.phase # "Validating"

\* the toasts the validator showed for the attempt
ValidationToasts(a) ==
    IF Sent(a)
    THEN SubSeq(a.toasts, 1, (CHOOSE i \in 1..Len(a.toasts) : a.toasts[i] = T_Uploading) - 1)
    ELSE a.toasts

HasLevel(toasts, level) == \E i \in 1..Len(toasts) : toasts[i].level = level

\* What the statements say of a file, written from their wording.
NineRequired ==
    { f_order_id, f_sku, f_quantity_purchased, f_recipient_name, f_ship_address_1,
      f_ship_city, f_ship_state, f_ship_postal_code, f_order_item_id }

FourEssential == { f_order_id, f_sku, f_quantity_purchased, f_recipient_name }

TenMegabytes == 10485760

NameEndsInCsv(file) ==
    /\ Len(file.name) >= 4
    /\ file.name[Len(file.name) - 3] = "."
    /\ file.name[Len(file.name) - 2] = "c"
    /\ file.name[Len(file.name) - 1] = "s"
    /\ file.name[Len(file.name)] = "v"

\* the lines of each file of the catalogue
LinesOf == [f \in FileIds |-> split(FileSystem[f].content, "\n")]

\* the header's names: comma-separated, trimmed, lower-cased
HeaderNames ==
    [f \in FileIds |->
        LET raw == split(trim(LinesOf[f][1]), ",")
        IN  [i \in 1..Len(raw) |-> toLowerCase(trim(raw[i]))]]

\* the files that are read: name and size pass
ReadFiles ==
    {f \in FileIds : NameEndsInCsv(FileSystem[f]) /\ FileSystem[f].size <= TenMegabytes}

BadNameFiles == {f \in FileIds : ~NameEndsInCsv(FileSystem[f])}

OversizeFiles ==
    {f \in FileIds : NameEndsInCsv(FileSystem[f]) /\ FileSystem[f].size > TenMegabytes}

\* the files whose header is looked at: read, with two lines or more
HeaderFiles == {f \in ReadFiles : Len(LinesOf[f]) >= 2}

MissingOf == [f \in HeaderFiles |-> NineRequired \ Range(HeaderNames[f])]

FirstRowValues == [f \in HeaderFiles |-> split(trim(LinesOf[f][2]), ",")]

\* zero-based index of a name's first occurrence in the header
HeaderIndex(f, name) ==
    (CHOOSE i \in 1..Len(HeaderNames[f]) :
        /\ HeaderNames[f][i] = name
        /\ \A j \in 1..(i - 1) : HeaderNames[f][j] # name) - 1

\* the files whose first row is looked at and differs in count from the header
MismatchFiles ==
    {f \in HeaderFiles : MissingOf[f] = {} /\ Len(FirstRowValues[f]) # Len(HeaderNames[f])}

\* those of them whose four essential fields index into the first row
ResolvableFiles ==
    {f \in MismatchFiles :
        \A name \in FourEssential : HeaderIndex(f, name) < Len(FirstRowValues[f])}

\* the files with one of the five blocking outcomes
BlockingFiles ==
    BadNameFiles \cup OversizeFiles
        \cup (ReadFiles \ HeaderFiles)
        \cup {f \in HeaderFiles : MissingOf[f] # {}}
        \cup (MismatchFiles \ ResolvableFiles)

\* C1: an upload request is sent only for a file without a blocking outcome,
\* and the validator showed no error toast before it; an attempt on a file
\* with a blocking outcome ends Blocked with an error toast.
C1_UploadOnlyWithoutBlockingError ==
    \A a \in Attempts :
        /\ Sent(a) => /\ a.file \notin BlockingFiles
                      /\ ~HasLevel(ValidationToasts(a), "error")
        /\ (Validated(a) /\ a.file \in BlockingFiles) =>
                /\ a.phase = "Blocked"
                /\ HasLevel(a.toasts, "error")

\* an attempt on a file whose essential fields lie outside its first row has
\* ended Blocked
C1_Witness ==
    \E a \in Attempts :
        /\ a.phase = "Blocked"
        /\ a.file \in MismatchFiles \ ResolvableFiles

\* the names a "missing required fields" toast lists
ListedNames(toast) ==
    LET parts == split(toast.arg, ",")
    IN  [i \in 1..Len(parts) |-> trim(parts[i])]

\* C2: when the header of a file that is read and has two lines or more lacks
\* a required field, the attempt ends Blocked with one error toast that lists
\* exactly the missing required names, and no upload is sent.
C2_MissingRequiredFieldsBlock ==
    \A a \in Attempts :
        (Validated(a) /\ a.file \in HeaderFiles /\ MissingOf[a.file] # {}) =>
            /\ a.phase = "Blocked"
            /\ Len(a.toasts) = 1
            /\ a.toasts[1].level = "error"
            /\ a.toasts[1].text = "CSV missing required fields: "
            /\ Range(ListedNames(a.toasts[1])) = MissingOf[a.file]
            /\ Len(ListedNames(a.toasts[1])) = Cardinality(MissingOf[a.file])

\* an attempt on a file that lacks only sku has ended Blocked, naming sku
C2_Witness ==
    \E a \in Attempts :
        /\ a.phase = "Blocked"
        /\ a.file \in HeaderFiles
        /\ MissingOf[a.file] = {f_sku}
        /\ a.toasts[1].arg = f_sku

\* two files agree on their first two lines
SameFirstTwoLines(f, g) ==
    /\ LinesOf[f][1] = LinesOf[g][1]
    /\ LinesOf[f][2] = LinesOf[g][2]

\* the files that differ from a file in their later rows only
SameStart ==
    [f \in HeaderFiles |->
        {g \in HeaderFiles \ {f} : SameFirstTwoLines(f, g)}]

\* C3: for a file that reaches the first-row check with a column count that
\* differs from the header's, the attempt goes on to upload with the mismatch
\* warning when the four essential fields index into the row, and ends Blocked
\* otherwise; a file with the same first two lines and other later rows gets
\* the same decision.
C3_FirstRowDecides ==
    \A a \in Attempts :
        /\ (Validated(a) /\ a.file \in MismatchFiles) =>
                IF a.file \in ResolvableFiles
                THEN /\ Sent(a)
                     /\ T_Mismatch \in Range(ValidationToasts(a))
                     /\ T_Mismatch.level = "warning"
                ELSE /\ a.phase = "Blocked"
                     /\ HasLevel(a.toasts, "error")
        /\ (Validated(a) /\ a.file \in HeaderFiles) =>
                \A g \in SameStart[a.file] :
                    OnloadResult[g].blocked <=> (a.phase = "Blocked")

\* an attempt on a file whose first row is shorter than the header, the four
\* essential fields still inside it, and that has a twin with other later
\* rows, has gone on to upload with the warning
C3_Witness ==
    \E a \in Attempts :
        /\ Sent(a)
        /\ a.file \in ResolvableFiles
        /\ SameStart[a.file] # {}
        /\ T_Mismatch \in Range(a.toasts)

\* C4: a file whose name does not end in .csv or whose size exceeds 10 MB is
\* rejected by the click handler itself, with one error toast: it is never
\* being read and never uploaded; a .csv file of exactly 10 MB is read.
C4_NameAndSizeRejectedBeforeRead ==
    \A a \in Attempts :
        /\ a.file \in BadNameFiles =>
                a.phase = "Blocked" /\ a.toasts = << T_OnlyCsv >>
        /\ a.file \in OversizeFiles =>
                a.phase = "Blocked" /\ a.toasts = << T_TooLarge >>
        /\ a.file \in ReadFiles =>
                /\ T_OnlyCsv \notin Range(a.toasts)
                /\ T_TooLarge \notin Range(a.toasts)

\* an attempt on orders.csv of 10 MB + 1 byte has ended Blocked, "File too large"
C4_Witness ==
    \E a \in Attempts :
        /\ FileSystem[a.file].name = n_orders_csv
        /\ FileSystem[a.file].size = TenMegabytes + 1
        /\ a.phase = "Blocked"
        /\ a.toasts = << T_TooLarge >>

\* the file has a header line and nothing but blank lines after it
HeaderWithoutDataRow(f) ==
    /\ trim(LinesOf[f][1]) # << >>
    /\ \A i \in 2..Len(LinesOf[f]) : trim(LinesOf[f][i]) = << >>

HeaderOnlyFiles == {f \in ReadFiles : HeaderWithoutDataRow(f)}

\* C5: a file that has a header line and no data row (the header alone, or
\* the header and a line break) is never uploaded, and its validation ends
\* Blocked.
C5_HeaderWithoutDataRowBlocked ==
    \A a \in Attempts :
        a.file \in HeaderOnlyFiles =>
            /\ ~Sent(a)
            /\ Validated(a) => a.phase = "Blocked" /\ HasLevel(a.toasts, "error")

\* an attempt on a file made of a header with all required fields and a line
\* break has ended Blocked
C5_Witness ==
    \E a \in Attempts :
        /\ a.phase = "Blocked"
        /\ a.file \in HeaderOnlyFiles \cap HeaderFiles
        /\ MissingOf[a.file] = {}

\* C6: every file without a blocking outcome is uploaded once validated,
\* whatever the three soft checks find; what they show are warnings.
C6_SoftChecksNeverBlock ==
    \A a \in Attempts :
        (Validated(a) /\ a.file \notin BlockingFiles) =>
            /\ Sent(a)
            /\ \A t \in Range(ValidationToasts(a)) : t.level = "warning"

\* an attempt whose header has not 15 columns and whose order-id misses the
\* patterns has gone on to upload
C6_Witness ==
    \E a \in Attempts :
        /\ Sent(a)
        /\ T_HeaderCount \in Range(a.toasts)
        /\ T_OrderIdFormat \in Range(a.toasts)

\* the file downloadTemplate hands to the browser
IsTemplate(file) == file.name = templateFileName /\ file.content = templateCsvContent

TemplateFiles == {f \in FileIds : IsTemplate(FileSystem[f])}

\* C7: the template, passed to handleUpload, is uploaded and the validator
\* shows no toast for it, neither a warning nor an error.
C7_TemplateRoundTrip ==
    \A a \in Attempts :
        (Validated(a) /\ a.file \in TemplateFiles) =>
            /\ Sent(a)
            /\ ValidationToasts(a) = << >>

\* the template's upload request is in flight
C7_Witness ==
    \E a \in Attempts :
        /\ a.file \in TemplateFiles
        /\ a.phase = "Uploading"
        /\ a.toasts = << T_Uploading >>

\* C8: each attempt moves Validating -> (Blocked | Uploading) ->
\* (Succeeded | Failed) and not otherwise, Uploading only without an error
\* toast; Blocked, Succeeded and Failed attempts do not change; and a newly
\* selected file stays the selected file of its fresh attempt: the selection
\* changes only when the user selects again or when an upload of that very
\* file ends.
C8_AttemptSteps ==
    /\ Len(uploads') >= Len(uploads)
    /\ \A i \in 1..Len(uploads') :
        IF i <= Len(uploads)
        THEN /\ uploads'[i].file = uploads[i].file
             /\ \/ uploads'[i] = uploads[i]
                \/ << uploads[i].phase, uploads'[i].phase >> \in
                        { << "Validating", "Blocked" >>, << "Validating", "Uploading" >>,
                          << "Uploading", "Succeeded" >>, << "Uploading", "Failed" >> }
             /\ (uploads[i].phase # "Uploading" /\ uploads'[i].phase = "Uploading") =>
                    ~HasLevel(ValidationToasts(uploads'[i]), "error")
             /\ uploads[i].phase \in {"Blocked", "Succeeded", "Failed"} =>
                    uploads'[i] = uploads[i]
        ELSE /\ uploads'[i].phase \in {"Validating", "Blocked"}
             /\ uploads'[i].file = selectedFile

C8_SelectionKept ==
    (selectedFile # NoFile /\ selectedFile' # selectedFile) =>
        \/ selectedFile' # NoFile
        \/ \E i \in 1..Len(uploads) :
            /\ uploads[i].file = selectedFile
            /\ uploads[i].phase = "Uploading"
            /\ uploads'[i].phase \in {"Succeeded", "Failed"}

C8_AttemptStateMachine == [][C8_AttemptSteps /\ C8_SelectionKept]_vars

-----------------------------------------------------------------------------
(* Properties of fetchTabOrders                                            *)

\* C9: a call of fetchTabOrders with a tab id that no tab carries sends the
\* request that tab "all" sends for the same filters.
C9_UnknownTabFetchesAll ==
    \A i \in 1..Len(listings) :
        listings[i].tab \notin TabTriggers =>
            listings[i].request = tabRequest("all", listings[i].filters)

\* a request for the tab id "returned", with a marketplace filter, is in flight
C9_Witness ==
    \E i \in 1..Len(listings) :
        /\ listings[i].tab = "returned"
        /\ listings[i].filters.source_option = "5"
        /\ listings[i].request.url = "/orders/get-all-orders"

\* C14: a listing request carries no source_option parameter when the
\* marketplace selection is "ALL" or absent, and carries the selected value
\* otherwise, whatever the tab.
C14_AllMarketplacesUnconstrained ==
    \A i \in 1..Len(listings) :
        LET selection == listings[i].filters.source_option
            sent == listings[i].request.params.source_option
        IN  IF selection \in {"ALL", "", Undefined}
            THEN sent = Undefined
            ELSE sent = selection

-----------------------------------------------------------------------------
(* Properties of getDisplayStatus                                          *)

HasEntry(code) == code \in DOMAIN statusVariants

Present(code) == code # Undefined /\ code # ""

\* the first rule that matches, in the order of the seven rules
FirstMatch(o) ==
    IF o.status = "OC" THEN Display("Cancelled", "destructive")
    ELSE IF o.status_payment = "PU" THEN Display("Awaiting Payment", "outline")
    ELSE IF Present(o.status_return) /\ o.status_return # "RN" /\ HasEntry(o.status_return)
    THEN Display(statusVariants[o.status_return].label, statusVariants[o.status_return].variant)
    ELSE IF Present(o.status_dispute) /\ o.status_dispute # "DN" /\ HasEntry(o.status_dispute)
    THEN Display(statusVariants[o.status_dispute].label, statusVariants[o.status_dispute].variant)
    ELSE IF Present(o.status_shipping) /\ HasEntry(o.status_shipping)
    THEN Display(statusVariants[o.status_shipping].label, statusVariants[o.status_shipping].variant)
    ELSE IF HasEntry(o.status)
    THEN Display(statusVariants[o.status].label, statusVariants[o.status].variant)
    ELSE Display("Processing", "secondary")

\* C10: getDisplayStatus returns what the first matching rule gives, a code
\* without an entry in the mapping falling through to the next rule, so that
\* the result always holds a label and a variant.
C10_FirstMatchWins ==
    \A i \in 1..Len(display) :
        /\ display[i] = FirstMatch(order)
        /\ display[i].status # Undefined
        /\ display[i].variant # Undefined

\* C11: an order whose status is OC is displayed as Cancelled, destructive,
\* whatever its payment, return, dispute and shipping codes.
C11_CancelledFirst ==
    \A i \in 1..Len(display) :
        order.status = "OC" => display[i] = Display("Cancelled", "destructive")

\* a cancelled order with an unpaid payment code, a return code, a dispute
\* code and a shipping code has been rendered
C11_Witness ==
    /\ display # << >>
    /\ order.status = "OC"
    /\ order.status_payment = "PU"
    /\ order.status_return = "RR"
    /\ order.status_dispute = "DP"
    /\ order.status_shipping = "SS"

-----------------------------------------------------------------------------
(* Properties of calculateOrderAmount                                      *)

\* the list in the order that a permutation of its positions gives
Reordered(items, f) == [i \in 1..Len(items) |-> items[f[i]]]

\* C12: the amount of a product list is the amount of every reordering of
\* it, and the amount of an empty or absent list is 0.
C12_AmountReorderInvariant ==
    \A i \in 1..Len(amount) :
        /\ products.kind = "array" =>
                \A f \in Permutations(1..Len(products.items)) :
                    calculateOrderAmount(Products("array", Reordered(products.items, f)))
                        = amount[i]
        /\ (products.kind # "array" \/ products.items = << >>) => amount[i] = Zero

\* the product has a final_price that is a decimal number
HasNumericPrice(product) ==
    /\ "final_price" \in DOMAIN product
    /\ product.final_price # << >>
    /\ \A i \in 1..Len(product.final_price) :
            IsDigit(product.final_price[i]) \/ product.final_price[i] = "."

\* final_price * quantity summed, in the order of the list, over the
\* products that have a numeric final_price
RECURSIVE SumOfNumeric(_, _)
SumOfNumeric(items, n) ==
    IF n = 0 THEN Zero
    ELSE IF HasNumericPrice(items[n])
    THEN numberAdd(SumOfNumeric(items, n - 1),
                   numberMultiply(parseFloat(items[n].final_price), toNumber(items[n].quantity)))
    ELSE SumOfNumeric(items, n - 1)

\* C13: for a list whose products all have a quantity, the amount is the sum
\* of final_price * quantity over the products with a numeric final_price; a
\* product with a missing or non-numeric final_price adds 0.
C13_MalformedPriceAddsZero ==
    \A i \in 1..Len(amount) :
        (/\ products.kind = "array"
         /\ \A n \in 1..Len(products.items) : "quantity" \in DOMAIN products.items[n]) =>
            amount[i] = SumOfNumeric(products.items, Len(products.items))

-----------------------------------------------------------------------------
(* Properties of the session                                               *)

\* how often a toast is among the toasts of the last answer
RECURSIVE Occurrences(_, _, _)
Occurrences(toasts, n, toast) ==
    IF n = 0 THEN 0
    ELSE Occurrences(toasts, n - 1, toast) + (IF toasts[n] = toast THEN 1 ELSE 0)

SessionWiped ==
    /\ localStorage["accessToken"] = Null
    /\ localStorage["refreshToken"] = Null
    /\ localStorage["user"] = Null

\* C15: whichever of the three clients receives a 401 answer, the step that
\* handles it leaves none of accessToken, refreshToken and user in the
\* storage and the route /auth/login, and the expiry handling (its toast) has
\* run exactly once for that answer.
C15_ExpiredSessionWipedOnce ==
    [][(\E i \in 1..Len(requests) : requestRejects(i, HttpError(401)))
        => /\ SessionWiped'
           /\ pathname' = "/auth/login"
           /\ settled'.status = 401
           /\ Occurrences(settled'.toasts, Len(settled'.toasts), T_SessionExpired) = 1]_vars

\* a 401 answer to a signed-in request of the order client has been handled
C15_Witness ==
    /\ settled.outcome = "rejected"
    /\ settled.status = 401
    /\ settled.client = "orderApiClient"
    /\ "Authorization" \in DOMAIN settled.headers
    /\ SessionWiped
    /\ pathname = "/auth/login"
    /\ user = Null

\* C16: a logout, from whatever state it is called in, leaves no access
\* token, no refresh token and no user profile in the storage, the user of
\* the auth context null and the route /auth/login.
C16_LogoutClearsSession ==
    [][logout => /\ SessionWiped'
                 /\ user' = Null
                 /\ pathname' = "/auth/login"]_vars

\* signed out while a request sent with the token is still in flight
C16_Witness ==
    /\ SessionWiped
    /\ user = Null
    /\ pathname = "/auth/login"
    /\ Len(requests) > 0
    /\ "Authorization" \in DOMAIN requests[1].headers
    /\ requests[1].headers["Authorization"] = Bearer("token-1")

\* the request a step sends, when it sends one
Sends == Len(requests') = Len(requests) + 1

\* C17: a request sent through the user, order or bill client while an access
\* token is stored carries Authorization: Bearer <the token stored when it is
\* sent>; a request sent while no token is stored (not yet signed in, after a
\* logout, after the wipe of a 401 answer) carries no Authorization header.
C17_BearerTokenAtSendTime ==
    [][Sends =>
        LET request == requests'[Len(requests')]
        IN  /\ request.client \in Clients
            /\ IF localStorage["accessToken"] # Null
               THEN /\ "Authorization" \in DOMAIN request.headers
                    /\ request.headers["Authorization"]
                            = << "Bearer", localStorage["accessToken"] >>
               ELSE "Authorization" \notin DOMAIN request.headers]_vars

\* a request sent with the token was answered with 401, and the request
\* sent after the wipe is in flight without the header
C17_Witness ==
    /\ settled.status = 401
    /\ "Authorization" \in DOMAIN settled.headers
    /\ settled.headers["Authorization"] = << "Bearer", "token-1" >>
    /\ Len(requests) = 1
    /\ "Authorization" \notin DOMAIN requests[1].headers

-----------------------------------------------------------------------------
(* Properties of the lookup of one order                                   *)

\* the paths a lookup has asked, in order
PathsTried == [i \in 1..Len(lookup.tried) |-> lookup.tried[i].path]

Tiers == << "/orders/order/", "/orders/get-all-orders", "/orders" >>

\* C18: a lookup asks /orders/order/{id} first and the listing endpoints
\* after it, in order; an order it returns from a listing is one whose
\* order_id or order_serial is the id asked for; it fails only after all
\* tiers were asked, and with the last error it met.
C18_TieredLookup ==
    /\ \A i \in 1..Len(lookup.tried) : PathsTried[i] = Tiers[i]
    /\ lookup.thrown # << >> =>
            /\ PathsTried = Tiers
            /\ lookup.error # << >> => lookup.thrown = lookup.error
    /\ (lookup.returned # << >> /\ Len(lookup.tried) > 1) =>
            LET found == lookup.returned[1].orders[1]
            IN  \/ ("order_id" \in DOMAIN found
                        /\ numberToString(found["order_id"]) = lookup.orderId)
                \/ ("order_serial" \in DOMAIN found
                        /\ found["order_serial"] = lookup.orderId)

-----------------------------------------------------------------------------
(* Properties of useApi                                                    *)

\* the step is the completion of a call whose effect has been cleaned up
StaleCompletion ==
    \E i \in 1..Len(effects), outcome \in Outcomes :
        /\ effects[i].by = "effect"
        /\ ~effects[i].isMounted
        /\ effectCompletes(i, outcome)

\* the step runs the cleanup of an effect
CleansUp ==
    \/ unmount
    \/ \E skip \in BOOLEAN, dep \in Deps, userId \in UserIds : rerender(skip, dep, userId)

\* C19: when the call started by an effect completes after the cleanup of
\* that effect (unmount, or another skip, deps or user id), with a result or
\* with an error, data, error and isLoading stay as they are and neither
\* onSuccess nor onError is called; the cleanup itself aborts no call: every
\* call awaited before it is still awaited after it.
C19_StaleCompletionIgnored ==
    [][/\ StaleCompletion =>
            /\ hook'.data = hook.data
            /\ hook'.error = hook.error
            /\ hook'.isLoading = hook.isLoading
            /\ hook'.called = << >>
       /\ CleansUp =>
            /\ Len(effects') >= Len(effects)
            /\ \A i \in 1..Len(effects) :
                    /\ effects'[i].by = effects[i].by
                    /\ effects[i].by = "effect" => ~effects'[i].isMounted]_vars

\* the call of an earlier effect has completed after the call of the
\* current effect: the data of the current effect is still shown
C19_Witness ==
    /\ hook.mounted
    /\ hook.settled = << Awaited("effect", FALSE) >>
    /\ hook.data = "result-1"
    /\ ~hook.isLoading
    /\ effects = << >>

-----------------------------------------------------------------------------
(* Properties of getErrorMessage                                           *)

\* the message a body gives: its detail, when that is a string or a list
BodyMessage(data) ==
    IF data = << >> THEN << >>
    ELSE IF data[1].detail.kind = "string" THEN << data[1].detail.items[1] >>
    ELSE IF data[1].detail.kind = "array"
    THEN << joinTexts(data[1].detail.items, Len(data[1].detail.items), ", ") >>
    ELSE << >>

\* the text keyed by the status code
StatusText(status) ==
    getErrorMessage(<< [message |-> << >>, response |-> Response(status, << >>)] >>)

NetworkText == getErrorMessage(<< AxiosError("Network Error", << >>) >>)

\* C20: the toast of a failed listing request shows the network-error text
\* when no response was received, the message of the response body when the
\* body gives one, and the text keyed by the status code when the body is
\* empty.
C20_ErrorMessagePrecedence ==
    fetchFailure # << >> =>
        LET error == fetchFailure[1].error
            shown == fetchFailure[1].toast.text
        IN  IF error.response = << >>
            THEN shown = "Failed to fetch orders: " \o NetworkText
            ELSE LET data == error.response[1].data
                 IN  /\ BodyMessage(data) # << >> =>
                            shown = "Failed to fetch orders: " \o BodyMessage(data)[1]
                     /\ data = << >> =>
                            shown = "Failed to fetch orders: " \o StatusText(error.response[1].status)

-----------------------------------------------------------------------------
(* Properties of the 422 notifications                                     *)

\* the text shows an object as Object.prototype.toString prints it
ShowsPlaceholder(text) == \E i \in 1..Len(text) : text[i] = "[object Object]"

\* C21: for an answer with status 422 whose body has a detail (a string, an
\* array or a nested object), no toast shown for that answer contains the
\* placeholder "[object Object]".
C21_DetailRenderedReadable ==
    \A i \in 1..Len(registration) :
        LET answer == registration[i].answer
            detail == memberOf(answer.data, "detail")
        IN  (answer.status = 422 /\ detail.type \in { "string", "array", "object" }) =>
                \A t \in 1..Len(registration[i].toasts) :
                    ~ShowsPlaceholder(registration[i].toasts[t].text)

-----------------------------------------------------------------------------
(* Properties of the OrderDetails page                                     *)

LacksOrderId(o) == "order_id" \notin DOMAIN o

\* no products member, or one that is no list
LacksProductList(o) == "products" \notin DOMAIN o \/ o.products.kind # "array"

\* the step handles a 2xx answer whose object lacks order_id or a product list
PartialAnswer(data) ==
    /\ data.kind = "object"
    /\ LacksOrderId(data.orders[1]) \/ LacksProductList(data.orders[1])
    /\ directAnswers(data)

\* the page has come through the answer: not loading, no error set by it,
\* the order set
Tolerated ==
    /\ ~details'.isLoading
    /\ details'.error = details.error
    /\ details'.order # << >>

-----------------------------------------------------------------------------
(* Properties of the Orders page under tab and filter changes              *)

\* the answer to the request issued last: the one the current state selects
LatestListing == backendListing(tabRequest(selectedTab, currentFilters))

\* C23: once every listing request has completed, the orders and the total
\* count displayed are those of the response to the most recently issued
\* request; a late completion of an earlier request does not replace them.
C23_LatestListingDisplayed ==
    listings = << >> =>
        /\ orders = ordersOf(LatestListing)
        /\ totalCount = totalCountOf(LatestListing)

-----------------------------------------------------------------------------
(* Properties of the Upload button                                         *)

\* the attempts whose handler chain is between the click and the completion
\* of the upload: the file is being read and validated, or is being posted
Pending == { i \in 1..Len(uploads) : uploads[i].phase \in {"Validating", "Uploading"} }

\* C24: at most one uploadOrders request is in flight at any time, and from
\* the click on Upload until the upload completes a further click starts no
\* second validation and no second upload of the same file.
C24_SingleUploadInFlight ==
    /\ Cardinality({ i \in Pending : uploads[i].phase = "Uploading" }) <= 1
    /\ \A i, j \in Pending : uploads[i].file = uploads[j].file => i = j

-----------------------------------------------------------------------------
(* Properties of a failed login                                            *)

\* the step settles a POST /login that AuthProvider.login rejects: the
\* request was rejected, or its body lacks user or access_token
LoginFails ==
    \/ \E i \in 1..Len(requests), error \in ResponseErrors :
            requests[i].url = "/login" /\ requestRejects(i, error)
    \/ \E i \in 1..Len(requests), data \in LoginResponses :
            /\ requests[i].url = "/login"
            /\ ~present(data.user) \/ ~present(data.access_token)
            /\ requestResolves(i, data)

\* C25: after a failed login the storage holds no access token, refresh
\* token or user profile that it did not hold before the attempt, and the
\* user of the auth context is unchanged.
C25_FailedLoginLeavesNoCredentials ==
    [][LoginFails =>
        /\ \A key \in {"accessToken", "refreshToken", "user"} :
                localStorage'[key] # Null => localStorage'[key] = localStorage[key]
        /\ user' = user]_vars

-----------------------------------------------------------------------------
(* Properties of the Wallet page                                           *)

\* C26: in every sequence of recharges the bill service accepts, each posted
\* bill has bill_balance_after = bill_balance_before + bill_sum, and its
\* bill_balance_before is the bill_balance_after of the bill accepted before
\* it, also when a refresh of the balance is in flight or has failed.
C26_RechargeChain ==
    \A k \in 1..Len(billService.posted) :
        /\ billService.posted[k].bill_balance_after
                = billService.posted[k].bill_balance_before + billService.posted[k].bill_sum
        /\ k > 1 => billService.posted[k].bill_balance_before
                        = billService.posted[k - 1].bill_balance_after

\* no autopay update awaits its answer
AutopaySettled == \A i \in 1..Len(walletCalls) : walletCalls[i].api # "updateAutopay"

\* C27: once every autopay update has been answered, the switch shows the
\* value of the last update the service accepted, or its initial value when
\* the service accepted none, in whatever order the answers arrived.
C27_SwitchShowsAcceptedValue ==
    AutopaySettled =>
        wallet.autopayEnabled =
            IF billService.autopay = << >> THEN InitialWallet.autopayEnabled
            ELSE billService.autopay[1]

\* the bill a row of the billing history was made of
billOf(row) == CHOOSE bill \in Range(billService.bills) : bill.bill_id = row.id

\* the first character of the amount shown in a row
shownSign(row) == row.amount[1]

\* C28: for every bill shown in the billing history the sign and the type
\* label agree: a negative bill_sum is shown with '-', a row labelled
\* Recharge, Refund or Order Refund is never shown with '-', and a row
\* labelled Payment, Withdrawal or Order Payment is never shown with '+'.
C28_SignAgreesWithLabel ==
    \A k \in 1..Len(wallet.transactions) :
        LET row == wallet.transactions[k]
        IN  /\ billOf(row).bill_sum < 0 => shownSign(row) = "-"
            /\ row.type \in {"Recharge", "Refund", "Order Refund"} => shownSign(row) # "-"
            /\ row.type \in {"Payment", "Withdrawal", "Order Payment"} => shownSign(row) # "+"

\* C29: in every state of the Wallet page reached by tab changes, page
\* changes, recharges and fetch completions, 1 <= currentPage <= totalPages
\* and the transactions list has at most 10 entries; a tab change always
\* resets currentPage to 1.
C29_PageWithinRange ==
    /\ [](/\ 1 <= wallet.currentPage
          /\ wallet.currentPage <= wallet.totalPages
          /\ Len(wallet.transactions) <= 10)
    /\ [][(\E tab \in WalletTabs : handleTabChange(tab)) => wallet'.currentPage = 1]_vars

-----------------------------------------------------------------------------
(* Properties of the WalletCard                                            *)

\* the body the balance request returned carries a balance
CarriesBalance(body) ==
    body # << >> /\ DOMAIN body[1] \cap {"currencies_balance", "balance"} # {}

\* the balance a body carries
carried(body) ==
    IF "currencies_balance" \in DOMAIN body[1]
    THEN parseFloatJson(body[1].currencies_balance)
    ELSE body[1].balance.number

\* C30: whenever the balance request succeeds and the response carries a
\* balance, in currencies_balance or in balance and including 0, the
\* WalletCard displays exactly that balance.
C30_CardShowsCarriedBalance ==
    (card.pending = "none" /\ card.error = << >> /\ CarriesBalance(card.received))
        => card.walletBalance = carried(card.received)
=============================================================================
